---- MODULE Spec2Model ----
(***************************************************************************)
(* Dual N-Back: the trial engine (hooks/useGameReducer gameReducer) and    *)
(* the pure helpers of utils/gameLogic it calls.                           *)
(*                                                                         *)
(* The reducer is a pure function state x action -> state; it is modelled  *)
(* as the operator gameReducer, one operator per case of its switch.  The  *)
(* variable `state` is the reducer's state object, `now` is Date.now().    *)
(* JavaScript `T | null` is modelled as a set with at most one element:    *)
(* NULL is {}, a present value v is {v}; `a === b` is then set equality.   *)
(* JavaScript arrays are 0-based: At(arr, i) reads arr[i].                 *)
(***************************************************************************)
EXTENDS Integers, Sequences, FiniteSets, TLC

(* ---------------------------------------------------------------- bounds *)
\* longest stimulus sequence of a single-channel session
MaxLen == 4
\* largest N-level of a single-channel session
MaxN == 2
\* number of steps the clock makes, each of one feedback duration
MaxTicks == 1
\* largest payload of UPDATE_ELAPSED_TIME (seconds)
MaxElapsed == 1
\* the values Math.random() takes: j / RandomSteps for j in 0..RandomSteps-1
RandomSteps == 2
\* longest session duration (seconds) of the generator's enumerated settings
MaxSeconds == 3

(* ------------------------------------------------------------- constants *)
FEEDBACK_DURATION_MS == 500
GRID_CELL_COUNT == 9
MIN_N_LEVEL == 1
AUDIO_LETTERS == <<"C", "H", "K", "L", "Q", "R", "S", "T">>

(* ------------------------------------------------------- nullable values *)
NULL == {}
Some(v) == {v}
Val(o) == CHOOSE v \in o : TRUE
At(arr, i) == arr[i + 1]

(* ------------------------------------------------------------------ types *)
GameMode == {"Visual", "Audio", "Dual"}
ResponseType == {"visual", "audio"}

\* The grid positions and letters the enumerated sequences are built from:
\* two values per channel give every match / non-match pattern.
Positions == {p \in 0..(GRID_CELL_COUNT - 1) : p <= 1}
Letters == {AUDIO_LETTERS[k] : k \in {j \in DOMAIN AUDIO_LETTERS : j <= 2}}

\* A Stimulus as generateSequence builds it for a game mode: the disabled
\* channel is null (getRandomVisual / getRandomAudio).
Stimulus(mode) ==
    { [visualPosition |-> v, audioLetter |-> a] :
        v \in (IF mode = "Audio" THEN {NULL} ELSE {Some(p) : p \in Positions}),
        a \in (IF mode = "Visual" THEN {NULL} ELSE {Some(l) : l \in Letters}) }

\* The sequences of at most maxLen stimuli of a mode.  The values of a
\* channel are interchangeable, so the first stimulus is fixed.
FirstStimulus(mode) ==
    [visualPosition |-> IF mode = "Audio" THEN NULL ELSE Some(0),
     audioLetter |-> IF mode = "Visual" THEN NULL ELSE Some(AUDIO_LETTERS[1])]

SequencesOf(mode, maxLen) ==
    { q \in UNION { [1..n -> Stimulus(mode)] : n \in 0..maxLen } :
        Len(q) > 0 => q[1] = FirstStimulus(mode) }

\* The sessions the driver can start: the settings prop and the sequence
\* generateSequence returns for it.  Of GameSettings the engine reads
\* gameMode and nLevel.  Single-channel sessions range over every N-level
\* and length up to the bounds; Dual sessions are the shortest in which a
\* miss can be resolved (N-level MIN_N_LEVEL, up to MIN_N_LEVEL + 2 trials).
SessionsOf(mode, maxN, maxLen) ==
    { [settings |-> [gameMode |-> mode, nLevel |-> n], sequence |-> q] :
        n \in MIN_N_LEVEL..maxN, q \in SequencesOf(mode, maxLen) }

Sessions ==
    SessionsOf("Visual", MaxN, MaxLen) \cup SessionsOf("Audio", MaxN, MaxLen)
        \cup SessionsOf("Dual", MIN_N_LEVEL, MIN_N_LEVEL + 2)

EmptyResponse == [visual |-> NULL, audio |-> NULL]
NoFeedback == [visual |-> NULL, audio |-> NULL]

(* ---------------------------------------------------- utils/gameLogic.ts *)
\* Variant: every press is reported as correct.
determineFeedbackAlwaysCorrect(isMatch, userPressedMatch) ==
    IF userPressedMatch = Some(TRUE) THEN Some("correct") ELSE NULL

\* Variant: a press on a non-match is given no feedback.
determineFeedbackForgivingFalseAlarm(isMatch, userPressedMatch) ==
    IF isMatch /\ userPressedMatch = Some(TRUE) THEN Some("correct") ELSE NULL

determineFeedback(isMatch, userPressedMatch) ==
    IF isMatch
    THEN (IF userPressedMatch = Some(TRUE) THEN Some("correct") ELSE NULL)
    ELSE (IF userPressedMatch = Some(TRUE) THEN Some("false-alarm") ELSE NULL)

\* Variant: a match is a miss whatever the recorded response.
determineMissFeedbackIgnoringResponse(isMatch, userPressedMatch) ==
    IF isMatch THEN Some("miss") ELSE NULL

determineMissFeedback(isMatch, userPressedMatch) ==
    IF isMatch /\ userPressedMatch # Some(TRUE) THEN Some("miss") ELSE NULL

initResultCounters ==
    [hits |-> 0, misses |-> 0, falseAlarms |-> 0, errors |-> 0,
     totalMatches |-> 0, rate |-> <<0, 1>>]

\* Variant: a non-match that was not pressed is counted as a miss.
ScoreChannelCountingSilence(r, cur, nBack, response) ==
    IF r # NULL /\ cur # NULL /\ nBack # NULL
    THEN LET c == Val(r) IN
         IF cur = nBack
         THEN (IF response = Some(TRUE)
               THEN Some([c EXCEPT !.totalMatches = @ + 1, !.hits = @ + 1])
               ELSE Some([c EXCEPT !.totalMatches = @ + 1, !.misses = @ + 1]))
         ELSE (IF response = Some(TRUE)
               THEN Some([c EXCEPT !.falseAlarms = @ + 1])
               ELSE Some([c EXCEPT !.misses = @ + 1]))
    ELSE r

\* Variant: a match that was not pressed is counted as a match but not as a
\* miss.
ScoreChannelSkippingSilence(r, cur, nBack, response) ==
    IF r # NULL /\ cur # NULL /\ nBack # NULL
    THEN LET c == Val(r) IN
         IF cur = nBack
         THEN (IF response = Some(TRUE)
               THEN Some([c EXCEPT !.totalMatches = @ + 1, !.hits = @ + 1])
               ELSE Some([c EXCEPT !.totalMatches = @ + 1]))
         ELSE (IF response = Some(TRUE)
               THEN Some([c EXCEPT !.falseAlarms = @ + 1])
               ELSE r)
    ELSE r

\* One channel's part of one iteration of the scoring loop.  `r` is the
\* channel's counters (NULL when the channel is disabled).
ScoreChannel(r, cur, nBack, response) ==
    IF r # NULL /\ cur # NULL /\ nBack # NULL
    THEN LET c == Val(r) IN
         IF cur = nBack
         THEN (IF response = Some(TRUE)
               THEN Some([c EXCEPT !.totalMatches = @ + 1, !.hits = @ + 1])
               ELSE Some([c EXCEPT !.totalMatches = @ + 1, !.misses = @ + 1]))
         ELSE (IF response = Some(TRUE)
               THEN Some([c EXCEPT !.falseAlarms = @ + 1])
               ELSE r)
    ELSE r

\* Variant: the loop stops one trial short, the last trial is not scored.
RECURSIVE ScoreLoopSkippingLast(_, _, _, _, _, _)
ScoreLoopSkippingLast(i, nLevel, stimulusSequence, userResponses, visualResults, audioResults) ==
    IF i < Len(stimulusSequence) - 1
    THEN LET currentStimulus == At(stimulusSequence, i)
             nBackStimulus == At(stimulusSequence, i - nLevel)
             userResponse == IF i + 1 \in DOMAIN userResponses
                             THEN At(userResponses, i) ELSE EmptyResponse
         IN  ScoreLoopSkippingLast(i + 1, nLevel, stimulusSequence, userResponses,
                 ScoreChannel(visualResults, currentStimulus.visualPosition,
                              nBackStimulus.visualPosition, userResponse.visual),
                 ScoreChannel(audioResults, currentStimulus.audioLetter,
                              nBackStimulus.audioLetter, userResponse.audio))
    ELSE [visual |-> visualResults, audio |-> audioResults]

\* for (let i = nLevel; i < numTrials; i++) { ... }
RECURSIVE ScoreLoop(_, _, _, _, _, _)
ScoreLoop(i, nLevel, stimulusSequence, userResponses, visualResults, audioResults) ==
    IF i < Len(stimulusSequence)
    THEN LET currentStimulus == At(stimulusSequence, i)
             nBackStimulus == At(stimulusSequence, i - nLevel)
             userResponse == IF i + 1 \in DOMAIN userResponses
                             THEN At(userResponses, i) ELSE EmptyResponse
         IN  ScoreLoop(i + 1, nLevel, stimulusSequence, userResponses,
                 ScoreChannel(visualResults, currentStimulus.visualPosition,
                              nBackStimulus.visualPosition, userResponse.visual),
                 ScoreChannel(audioResults, currentStimulus.audioLetter,
                              nBackStimulus.audioLetter, userResponse.audio))
    ELSE [visual |-> visualResults, audio |-> audioResults]

\* Variant: the rate is the share of matches that were hit.
DeriveMetricsByHits(r) ==
    IF r = NULL THEN NULL
    ELSE LET c == Val(r)
             errors == c.misses + c.falseAlarms
         IN  Some([c EXCEPT !.errors = errors,
                            !.rate = IF c.totalMatches > 0
                                     THEN <<c.hits * 100, c.totalMatches>>
                                     ELSE (IF errors = 0 THEN <<100, 1>> ELSE <<0, 1>>)])

\* Variant: without a match the rate is 0.
DeriveMetricsZeroWithoutMatches(r) ==
    IF r = NULL THEN NULL
    ELSE LET c == Val(r)
             errors == c.misses + c.falseAlarms
         IN  Some([c EXCEPT !.errors = errors,
                            !.rate = IF c.totalMatches > 0
                                     THEN <<(c.totalMatches - errors) * 100, c.totalMatches>>
                                     ELSE <<0, 1>>])

\* errors and rate of one channel; a rate is the fraction <<numerator,
\* denominator>> of the percentage the code computes in floating point.
DeriveMetrics(r) ==
    IF r = NULL THEN NULL
    ELSE LET c == Val(r)
             errors == c.misses + c.falseAlarms
         IN  Some([c EXCEPT !.errors = errors,
                            !.rate = IF c.totalMatches > 0
                                     THEN <<(c.totalMatches - errors) * 100, c.totalMatches>>
                                     ELSE (IF errors = 0 THEN <<100, 1>> ELSE <<0, 1>>)])

\* Variant: false alarms and misses count against the overall rate, as they
\* do against a channel's rate.
calculateResultsOverallByErrors(settings, gameState) ==
    LET counted == ScoreLoop(settings.nLevel, settings.nLevel,
                       gameState.stimulusSequence, gameState.userResponses,
                       IF settings.gameMode # "Audio" THEN Some(initResultCounters) ELSE NULL,
                       IF settings.gameMode # "Visual" THEN Some(initResultCounters) ELSE NULL)
        visualResults == DeriveMetrics(counted.visual)
        audioResults == DeriveMetrics(counted.audio)
        totalOverallHits ==
            (IF visualResults # NULL
             THEN Val(visualResults).totalMatches - Val(visualResults).errors ELSE 0)
            + (IF audioResults # NULL
               THEN Val(audioResults).totalMatches - Val(audioResults).errors ELSE 0)
        totalOverallMatches ==
            (IF visualResults # NULL THEN Val(visualResults).totalMatches ELSE 0)
            + (IF audioResults # NULL THEN Val(audioResults).totalMatches ELSE 0)
    IN  [settings |-> settings,
         totalTrials |-> Len(gameState.stimulusSequence),
         visual |-> visualResults,
         audio |-> audioResults,
         overallSuccessRate |-> IF totalOverallMatches > 0
                                THEN <<totalOverallHits * 100, totalOverallMatches>>
                                ELSE <<0, 1>>]

calculateResults(settings, gameState) ==
    LET counted == ScoreLoop(settings.nLevel, settings.nLevel,
                       gameState.stimulusSequence, gameState.userResponses,
                       IF settings.gameMode # "Audio" THEN Some(initResultCounters) ELSE NULL,
                       IF settings.gameMode # "Visual" THEN Some(initResultCounters) ELSE NULL)
        visualResults == DeriveMetrics(counted.visual)
        audioResults == DeriveMetrics(counted.audio)
        totalOverallHits ==
            (IF visualResults # NULL THEN Val(visualResults).hits ELSE 0)
            + (IF audioResults # NULL THEN Val(audioResults).hits ELSE 0)
        totalOverallMatches ==
            (IF visualResults # NULL THEN Val(visualResults).totalMatches ELSE 0)
            + (IF audioResults # NULL THEN Val(audioResults).totalMatches ELSE 0)
    IN  [settings |-> settings,
         totalTrials |-> Len(gameState.stimulusSequence),
         visual |-> visualResults,
         audio |-> audioResults,
         overallSuccessRate |-> IF totalOverallMatches > 0
                                THEN <<totalOverallHits * 100, totalOverallMatches>>
                                ELSE <<0, 1>>]

(* ------------------------------------------------ hooks/useGameReducer.ts *)
initialState ==
    [status |-> "idle",
     score |-> 0,
     currentTrial |-> -1,
     elapsedTime |-> 0,
     stimulusSequence |-> <<>>,
     userResponses |-> <<>>,
     activeVisualStimulus |-> NULL,
     activeAudioStimulus |-> NULL,
     feedback |-> NoFeedback,
     showFeedbackUntil |-> 0,
     results |-> NULL,
     settings |-> NULL]

\* new Array(n).fill(null).map(() => ({ visual: null, audio: null }))
EmptyResponses(n) == [i \in 1..n |-> EmptyResponse]

\* Variant: the response slots are sized by the sequence of the session
\* being replaced, and the score is carried over.
StartGameKeepingOld(s, action) ==
    [initialState EXCEPT
        !.status = "idle",
        !.stimulusSequence = action.sequence,
        !.userResponses = EmptyResponses(Len(s.stimulusSequence)),
        !.currentTrial = -1,
        !.elapsedTime = 0,
        !.score = s.score,
        !.settings = Some(action.settings)]

StartGame(s, action) ==
    [initialState EXCEPT
        !.status = "idle",
        !.stimulusSequence = action.sequence,
        !.userResponses = EmptyResponses(Len(action.sequence)),
        !.currentTrial = -1,
        !.elapsedTime = 0,
        !.score = 0,
        !.settings = Some(action.settings)]

\* Variant: run without the status guard.
RunGameUnguarded(s, action) == [s EXCEPT !.status = "running"]

RunGame(s, action) ==
    IF s.status = "idle" THEN [s EXCEPT !.status = "running"] ELSE s

\* Variant: stop keeps the recorded responses.
StopGameKeepingResponses(s, action) ==
    [s EXCEPT
        !.status = "idle",
        !.score = 0,
        !.currentTrial = -1,
        !.elapsedTime = 0,
        !.activeVisualStimulus = NULL,
        !.activeAudioStimulus = NULL,
        !.feedback = NoFeedback,
        !.showFeedbackUntil = 0,
        !.results = NULL]

StopGame(s, action) ==
    [s EXCEPT
        !.status = "idle",
        !.score = 0,
        !.currentTrial = -1,
        !.elapsedTime = 0,
        !.userResponses = EmptyResponses(Len(s.stimulusSequence)),
        !.activeVisualStimulus = NULL,
        !.activeAudioStimulus = NULL,
        !.feedback = NoFeedback,
        !.showFeedbackUntil = 0,
        !.results = NULL]

\* Variant: pause without the status guard.
PauseGameUnguarded(s, action) == [s EXCEPT !.status = "paused"]

PauseGame(s, action) ==
    IF s.status = "running" THEN [s EXCEPT !.status = "paused"] ELSE s

ResumeGame(s, action) ==
    IF s.status = "paused" THEN [s EXCEPT !.status = "running"] ELSE s

\* The miss resolution of NEXT_TRIAL for the trial being left (lines 74-93).
MissFeedback(s, action) ==
    LET nLevel == action.settings.nLevel IN
    IF s.currentTrial >= nLevel
    THEN LET prevTrialIndex == s.currentTrial
             prevStimulus == At(s.stimulusSequence, prevTrialIndex)
             nBackStimulus == At(s.stimulusSequence, prevTrialIndex - nLevel)
             prevResponse == At(s.userResponses, prevTrialIndex)
             visualMatchOccurred == prevStimulus.visualPosition # NULL
                 /\ prevStimulus.visualPosition = nBackStimulus.visualPosition
             audioMatchOccurred == prevStimulus.audioLetter # NULL
                 /\ prevStimulus.audioLetter = nBackStimulus.audioLetter
         IN  [visual |-> IF action.settings.gameMode # "Audio"
                         THEN determineMissFeedback(visualMatchOccurred, prevResponse.visual)
                         ELSE NULL,
              audio |-> IF action.settings.gameMode # "Visual"
                        THEN determineMissFeedback(audioMatchOccurred, prevResponse.audio)
                        ELSE NULL]
    ELSE NoFeedback

\* Variant: the session finishes one advance early, the last stimulus is
\* never exposed.
NextTrialFinishingEarly(s, action) ==
    LET nextTrialIndex == s.currentTrial + 1 IN
    IF nextTrialIndex + 1 >= Len(s.stimulusSequence)
    THEN [s EXCEPT !.status = "finished"]
    ELSE LET currentStimulus == At(s.stimulusSequence, nextTrialIndex)
             missFeedback == MissFeedback(s, action)
             scoreDelta == (IF missFeedback.visual = Some("miss") THEN -1 ELSE 0)
                         + (IF missFeedback.audio = Some("miss") THEN -1 ELSE 0)
             anyMiss == missFeedback.visual # NULL \/ missFeedback.audio # NULL
         IN  [s EXCEPT
                !.score = s.score + scoreDelta,
                !.currentTrial = nextTrialIndex,
                !.activeVisualStimulus = currentStimulus.visualPosition,
                !.activeAudioStimulus = currentStimulus.audioLetter,
                !.feedback = IF anyMiss THEN missFeedback ELSE NoFeedback,
                !.showFeedbackUntil = IF anyMiss
                                      THEN action.currentTime + FEEDBACK_DURATION_MS
                                      ELSE 0]

\* Variant: advancing records `false` on the channels of the trial it leaves
\* that were not answered.
NextTrialRecordingSilence(s, action) ==
    LET nextTrialIndex == s.currentTrial + 1 IN
    IF nextTrialIndex >= Len(s.stimulusSequence)
    THEN [s EXCEPT !.status = "finished"]
    ELSE LET currentStimulus == At(s.stimulusSequence, nextTrialIndex)
             missFeedback == MissFeedback(s, action)
             scoreDelta == (IF missFeedback.visual = Some("miss") THEN -1 ELSE 0)
                         + (IF missFeedback.audio = Some("miss") THEN -1 ELSE 0)
             anyMiss == missFeedback.visual # NULL \/ missFeedback.audio # NULL
             closed(r) == [visual |-> IF r.visual = NULL THEN Some(FALSE) ELSE r.visual,
                           audio |-> IF r.audio = NULL THEN Some(FALSE) ELSE r.audio]
         IN  [s EXCEPT
                !.score = s.score + scoreDelta,
                !.currentTrial = nextTrialIndex,
                !.userResponses =
                    [i \in DOMAIN s.userResponses |->
                        IF i = s.currentTrial + 1
                        THEN closed(s.userResponses[i]) ELSE s.userResponses[i]],
                !.activeVisualStimulus = currentStimulus.visualPosition,
                !.activeAudioStimulus =
                    IF currentStimulus.audioLetter # NULL /\ Val(currentStimulus.audioLetter) # ""
                    THEN currentStimulus.audioLetter ELSE NULL,
                !.feedback = IF anyMiss THEN missFeedback ELSE NoFeedback,
                !.showFeedbackUntil = IF anyMiss
                                      THEN action.currentTime + FEEDBACK_DURATION_MS
                                      ELSE 0]

\* Variant: past the last trial the state is returned as it is.
NextTrialWithoutEnd(s, action) ==
    LET nextTrialIndex == s.currentTrial + 1 IN
    IF nextTrialIndex >= Len(s.stimulusSequence)
    THEN s
    ELSE LET currentStimulus == At(s.stimulusSequence, nextTrialIndex)
             missFeedback == MissFeedback(s, action)
             scoreDelta == (IF missFeedback.visual = Some("miss") THEN -1 ELSE 0)
                         + (IF missFeedback.audio = Some("miss") THEN -1 ELSE 0)
             anyMiss == missFeedback.visual # NULL \/ missFeedback.audio # NULL
         IN  [s EXCEPT
                !.score = s.score + scoreDelta,
                !.currentTrial = nextTrialIndex,
                !.activeVisualStimulus = currentStimulus.visualPosition,
                !.activeAudioStimulus =
                    IF currentStimulus.audioLetter # NULL /\ Val(currentStimulus.audioLetter) # ""
                    THEN currentStimulus.audioLetter ELSE NULL,
                !.feedback = IF anyMiss THEN missFeedback ELSE NoFeedback,
                !.showFeedbackUntil = IF anyMiss
                                      THEN action.currentTime + FEEDBACK_DURATION_MS
                                      ELSE 0]

NextTrial(s, action) ==
    LET nextTrialIndex == s.currentTrial + 1 IN
    IF nextTrialIndex >= Len(s.stimulusSequence)
    THEN [s EXCEPT !.status = "finished"]
    ELSE LET currentStimulus == At(s.stimulusSequence, nextTrialIndex)
             missFeedback == MissFeedback(s, action)
             scoreDelta == (IF missFeedback.visual = Some("miss") THEN -1 ELSE 0)
                         + (IF missFeedback.audio = Some("miss") THEN -1 ELSE 0)
             anyMiss == missFeedback.visual # NULL \/ missFeedback.audio # NULL
         IN  [s EXCEPT
                !.score = s.score + scoreDelta,
                !.currentTrial = nextTrialIndex,
                !.activeVisualStimulus = currentStimulus.visualPosition,
                !.activeAudioStimulus =
                    IF currentStimulus.audioLetter # NULL /\ Val(currentStimulus.audioLetter) # ""
                    THEN currentStimulus.audioLetter ELSE NULL,
                !.feedback = IF anyMiss THEN missFeedback ELSE NoFeedback,
                !.showFeedbackUntil = IF anyMiss
                                      THEN action.currentTime + FEEDBACK_DURATION_MS
                                      ELSE 0]

\* `state.settings!.nLevel` on a null settings raises a TypeError.
RegisterResponseThrows(s, action) == s.settings = NULL

\* Variant: only the N-back window is checked, a channel already answered
\* is accepted again.
RegisterResponseIgnoredBelowNOnly(s, action) ==
    s.currentTrial < Val(s.settings).nLevel

\* The early returns of REGISTER_RESPONSE (lines 114-119).
RegisterResponseIgnored(s, action) ==
    LET responseType == action.responseType
        nLevel == Val(s.settings).nLevel
        currentTrialIndex == s.currentTrial
    IN  \/ currentTrialIndex < nLevel
        \/ responseType = "visual" /\ At(s.userResponses, currentTrialIndex).visual # NULL
        \/ responseType = "audio" /\ At(s.userResponses, currentTrialIndex).audio # NULL

\* Variant: a visual press is taken whatever the game mode.
RegisterResponseOnAnyChannel(s, action) ==
    LET responseType == action.responseType
        currentTime == action.currentTime
        settings == Val(s.settings)
        nLevel == settings.nLevel
        currentTrialIndex == s.currentTrial
    IN
    IF RegisterResponseIgnored(s, action) THEN s
    ELSE
    LET currentStimulus == At(s.stimulusSequence, currentTrialIndex)
        nBackStimulus == At(s.stimulusSequence, currentTrialIndex - nLevel)
        old == At(s.userResponses, currentTrialIndex)
        visualBranch == responseType = "visual"
        audioBranch == ~visualBranch /\ responseType = "audio" /\ settings.gameMode # "Visual"
        isMatch ==
            IF visualBranch
            THEN currentStimulus.visualPosition # NULL /\ nBackStimulus.visualPosition # NULL
                 /\ currentStimulus.visualPosition = nBackStimulus.visualPosition
            ELSE currentStimulus.audioLetter # NULL /\ nBackStimulus.audioLetter # NULL
                 /\ currentStimulus.audioLetter = nBackStimulus.audioLetter
        responseFeedback ==
            IF visualBranch \/ audioBranch THEN determineFeedback(isMatch, Some(TRUE)) ELSE NULL
        updatedTrialResponse ==
            [visual |-> IF visualBranch THEN Some(TRUE) ELSE old.visual,
             audio |-> IF audioBranch THEN Some(TRUE) ELSE old.audio]
        showFeedback == responseFeedback # NULL
        feedback ==
            [visual |-> IF visualBranch /\ showFeedback THEN responseFeedback ELSE s.feedback.visual,
             audio |-> IF audioBranch /\ showFeedback THEN responseFeedback ELSE s.feedback.audio]
        scoreDelta == IF responseFeedback = Some("correct") THEN 1
                      ELSE IF responseFeedback = Some("false-alarm") THEN -1 ELSE 0
    IN  [s EXCEPT
            !.score = s.score + scoreDelta,
            !.userResponses = [s.userResponses EXCEPT ![currentTrialIndex + 1] = updatedTrialResponse],
            !.feedback = IF showFeedback THEN feedback ELSE s.feedback,
            !.showFeedbackUntil = IF showFeedback
                                  THEN currentTime + FEEDBACK_DURATION_MS
                                  ELSE s.showFeedbackUntil]

RegisterResponse(s, action) ==
    LET responseType == action.responseType
        currentTime == action.currentTime
        settings == Val(s.settings)
        nLevel == settings.nLevel
        currentTrialIndex == s.currentTrial
    IN
    IF RegisterResponseIgnored(s, action) THEN s
    ELSE
    LET currentStimulus == At(s.stimulusSequence, currentTrialIndex)
        nBackStimulus == At(s.stimulusSequence, currentTrialIndex - nLevel)
        old == At(s.userResponses, currentTrialIndex)
        visualBranch == responseType = "visual" /\ settings.gameMode # "Audio"
        audioBranch == ~visualBranch /\ responseType = "audio" /\ settings.gameMode # "Visual"
        isMatch ==
            IF visualBranch
            THEN currentStimulus.visualPosition # NULL /\ nBackStimulus.visualPosition # NULL
                 /\ currentStimulus.visualPosition = nBackStimulus.visualPosition
            ELSE currentStimulus.audioLetter # NULL /\ nBackStimulus.audioLetter # NULL
                 /\ currentStimulus.audioLetter = nBackStimulus.audioLetter
        responseFeedback ==
            IF visualBranch \/ audioBranch THEN determineFeedback(isMatch, Some(TRUE)) ELSE NULL
        updatedTrialResponse ==
            [visual |-> IF visualBranch THEN Some(TRUE) ELSE old.visual,
             audio |-> IF audioBranch THEN Some(TRUE) ELSE old.audio]
        showFeedback == responseFeedback # NULL
        feedback ==
            [visual |-> IF visualBranch /\ showFeedback THEN responseFeedback ELSE s.feedback.visual,
             audio |-> IF audioBranch /\ showFeedback THEN responseFeedback ELSE s.feedback.audio]
        scoreDelta == IF responseFeedback = Some("correct") THEN 1
                      ELSE IF responseFeedback = Some("false-alarm") THEN -1 ELSE 0
    IN  [s EXCEPT
            !.score = s.score + scoreDelta,
            !.userResponses = [s.userResponses EXCEPT ![currentTrialIndex + 1] = updatedTrialResponse],
            !.feedback = IF showFeedback THEN feedback ELSE s.feedback,
            !.showFeedbackUntil = IF showFeedback
                                  THEN currentTime + FEEDBACK_DURATION_MS
                                  ELSE s.showFeedbackUntil]

\* Variant: feedback is cleared whatever the expiry timestamp.
ClearFeedbackUnguarded(s, action) ==
    [s EXCEPT !.feedback = NoFeedback, !.showFeedbackUntil = 0]

\* action.now is the value Date.now() returns inside the reducer.
ClearFeedback(s, action) ==
    IF action.now >= s.showFeedbackUntil
    THEN [s EXCEPT !.feedback = NoFeedback, !.showFeedbackUntil = 0]
    ELSE s

UpdateElapsedTime(s, action) == [s EXCEPT !.elapsedTime = action.payload]

\* Variant: the audio stimulus is cleared together with the visual one.
ClearVisualStimulusAndAudio(s, action) ==
    [s EXCEPT !.activeVisualStimulus = NULL, !.activeAudioStimulus = NULL]

ClearVisualStimulus(s, action) == [s EXCEPT !.activeVisualStimulus = NULL]

\* Variant: the feedback showing is kept when the session ends.
EndSessionKeepingFeedback(s, action) ==
    IF s.settings = NULL
    THEN [s EXCEPT !.status = "settings"]
    ELSE [s EXCEPT
            !.status = "finished",
            !.results = Some(calculateResults(Val(s.settings), s)),
            !.activeVisualStimulus = NULL,
            !.activeAudioStimulus = NULL]

\* Variant: without settings the session falls back to a fresh state.
EndSessionResetting(s, action) ==
    IF s.settings = NULL
    THEN [initialState EXCEPT !.status = "settings"]
    ELSE [s EXCEPT
            !.status = "finished",
            !.results = Some(calculateResults(Val(s.settings), s)),
            !.activeVisualStimulus = NULL,
            !.activeAudioStimulus = NULL,
            !.feedback = NoFeedback]

EndSession(s, action) ==
    IF s.settings = NULL
    THEN [s EXCEPT !.status = "settings"]
    ELSE [s EXCEPT
            !.status = "finished",
            !.results = Some(calculateResults(Val(s.settings), s)),
            !.activeVisualStimulus = NULL,
            !.activeAudioStimulus = NULL,
            !.feedback = NoFeedback]

gameReducer(s, action) ==
    CASE action.type = "START_GAME" -> StartGame(s, action)
      [] action.type = "RUN_GAME" -> RunGame(s, action)
      [] action.type = "STOP_GAME" -> StopGame(s, action)
      [] action.type = "PAUSE_GAME" -> PauseGame(s, action)
      [] action.type = "RESUME_GAME" -> ResumeGame(s, action)
      [] action.type = "NEXT_TRIAL" -> NextTrial(s, action)
      [] action.type = "REGISTER_RESPONSE" -> RegisterResponse(s, action)
      [] action.type = "CLEAR_FEEDBACK" -> ClearFeedback(s, action)
      [] action.type = "UPDATE_ELAPSED_TIME" -> UpdateElapsedTime(s, action)
      [] action.type = "CLEAR_VISUAL_STIMULUS" -> ClearVisualStimulus(s, action)
      [] action.type = "END_SESSION" -> EndSession(s, action)
      [] OTHER -> s

(* ------------------------------------------------ types.ts: GameAction *)
StartGameAction(settings, sequence) ==
    [type |-> "START_GAME", settings |-> settings, sequence |-> sequence]
RunGameAction == [type |-> "RUN_GAME"]
StopGameAction == [type |-> "STOP_GAME"]
PauseGameAction == [type |-> "PAUSE_GAME"]
ResumeGameAction == [type |-> "RESUME_GAME"]
NextTrialAction(currentTime, settings) ==
    [type |-> "NEXT_TRIAL", currentTime |-> currentTime, settings |-> settings]
RegisterResponseAction(responseType, currentTime, settings) ==
    [type |-> "REGISTER_RESPONSE", responseType |-> responseType,
     currentTime |-> currentTime, settings |-> settings]
ClearFeedbackAction(dateNow) == [type |-> "CLEAR_FEEDBACK", now |-> dateNow]
UpdateElapsedTimeAction(payload) == [type |-> "UPDATE_ELAPSED_TIME", payload |-> payload]
ClearVisualStimulusAction == [type |-> "CLEAR_VISUAL_STIMULUS"]
EndSessionAction == [type |-> "END_SESSION"]

(* ------------------------------------------------------------ the machine *)
\* The engine as an open system: every event of the reducer can be
\* dispatched in every state.  SHOW_FEEDBACK is left out: no code of the
\* repository dispatches it.
VARIABLES
    state,      \* the reducer's state (useReducer)
    now,        \* Date.now(), in ms
    threw,      \* the reducer raised a TypeError: the component tree is gone
    props,      \* the Game component's `settings` prop
    generated,  \* what generateSequence(props) returns (the random draws)
    driver,     \* the Game component: isActive prop, renders, pending timers
    gen         \* a call of generateSequence in progress: its locals

vars == <<state, now, threw, props, generated, driver, gen>>

\* What a render of Game reads from its props and the reducer's state: the
\* dependencies of its effects and the values its callbacks close over.
Render(isActive, s) ==
    [isActive |-> isActive,
     status |-> s.status,
     showFeedbackUntil |-> s.showFeedbackUntil,
     activeVisualStimulus |-> s.activeVisualStimulus,
     elapsedTime |-> s.elapsedTime]

\* Game mounted with isActive false: rendered once, effects run, all the
\* timeout refs null.
mounted ==
    [isActive |-> FALSE,
     commit |-> Render(FALSE, initialState),
     effects |-> Render(FALSE, initialState),
     gameLoop |-> NULL,
     elapsed |-> NULL,
     feedbackTimeout |-> NULL,
     visualStimulusTimeout |-> FALSE]

Init ==
    /\ state = initialState
    /\ now = 0
    /\ threw = FALSE
    /\ driver = mounted
    /\ gen = NULL
    /\ \E session \in Sessions :
            /\ props = session.settings
            /\ generated = session.sequence

Dispatch(action) ==
    /\ ~threw
    /\ IF action.type = "REGISTER_RESPONSE" /\ RegisterResponseThrows(state, action)
       THEN /\ threw' = TRUE
            /\ state' = state
       ELSE /\ threw' = FALSE
            /\ state' = gameReducer(state, action)
    /\ UNCHANGED <<now, props, generated, driver, gen>>

\* Game.tsx: const sequence = generateSequence(settings); START_GAME
start == Dispatch(StartGameAction(props, generated))

run == Dispatch(RunGameAction)

stop == Dispatch(StopGameAction)

pause == Dispatch(PauseGameAction)

resume == Dispatch(ResumeGameAction)

\* Game.tsx gameTick: currentTime is Date.now(), settings the prop
advanceTrial == Dispatch(NextTrialAction(now, props))

\* Game.tsx handleKeyDown
registerResponse ==
    \E responseType \in ResponseType :
        Dispatch(RegisterResponseAction(responseType, now, props))

clearFeedback == Dispatch(ClearFeedbackAction(now))

updateElapsedTime ==
    \E payload \in 0..MaxElapsed :
        Dispatch(UpdateElapsedTimeAction(payload))

clearVisualStimulus == Dispatch(ClearVisualStimulusAction)

endSession == Dispatch(EndSessionAction)

\* The clock advances between events.
Tick ==
    /\ ~threw
    /\ now < MaxTicks * FEEDBACK_DURATION_MS
    /\ now' = now + FEEDBACK_DURATION_MS
    /\ UNCHANGED <<state, threw, props, generated, driver, gen>>

Next ==
    \/ start
    \/ run
    \/ stop
    \/ pause
    \/ resume
    \/ advanceTrial
    \/ registerResponse
    \/ clearFeedback
    \/ updateElapsedTime
    \/ clearVisualStimulus
    \/ endSession
    \/ Tick

Spec == Init /\ [][Next]_vars

\* The engine on a session the driver has started: the state START_GAME
\* leaves, with every event of the reducer dispatched from there.
SessionInit ==
    /\ now = 0
    /\ threw = FALSE
    /\ driver = mounted
    /\ gen = NULL
    /\ \E session \in Sessions :
            /\ props = session.settings
            /\ generated = session.sequence
            /\ state = gameReducer(initialState,
                            StartGameAction(session.settings, session.sequence))

SessionSpec == SessionInit /\ [][Next]_vars

(* ---------------------------------------------------- components/Game.tsx *)
\* The driver: the Game component around the reducer.  A step is one task of
\* the event loop: a timer callback, an event of the page, or a piece of
\* React's work.  React renders Game with the latest props and state, and
\* runs the effects of a render (useEffect) later, before it renders again;
\* timer callbacks can run in between.  Actions are reduced in the order
\* they are dispatched.

\* dispatch(a1); dispatch(a2); ...
RECURSIVE DispatchAll(_, _)
DispatchAll(s, actions) ==
    IF actions = <<>> THEN s
    ELSE DispatchAll(gameReducer(s, Head(actions)), Tail(actions))

\* settings.sessionDuration, in seconds: a session longer than the ticks of
\* the elapsed timer the engine is given, so that more than one tick is due
\* before its end
sessionDuration == MaxElapsed + 1

\* The effects of the render d.commit, the effects of the render d.effects
\* having run before: the cleanups of the effects whose dependencies
\* changed, then their bodies, in the order of the component.  The result is
\* the actions they dispatch and the timers and the isActive prop they leave.
RunEffects(d) ==
    LET prev == d.effects
        cur == d.commit
        statusChanged == prev.status # cur.status
        isActiveChanged == prev.isActive # cur.isActive \/ statusChanged
        feedbackChanged == prev.showFeedbackUntil # cur.showFeedbackUntil
        visualChanged == statusChanged
            \/ prev.activeVisualStimulus # cur.activeVisualStimulus
        stateChanged == statusChanged \/ feedbackChanged \/ visualChanged
            \/ prev.elapsedTime # cur.elapsedTime
        \* isActive effect: cleanup of the run before, then body
        cleared == isActiveChanged /\ (prev.isActive \/ ~cur.isActive)
        started == isActiveChanged /\ cur.isActive
        stopped == isActiveChanged /\ ~cur.isActive
            /\ cur.status \in {"running", "paused"}
        \* status effect
        loops == statusChanged /\ cur.status = "running"
        \* feedback timeout effect
        feedbackDue == feedbackChanged /\ cur.showFeedbackUntil > 0
        \* visual stimulus effect
        visualDue == visualChanged /\ cur.status = "running"
            /\ cur.activeVisualStimulus # NULL
        \* end-of-game effect
        ended == stateChanged /\ cur.status = "finished"
    IN  [actions |->
            (IF started THEN <<StartGameAction(props, generated), RunGameAction>>
             ELSE IF stopped THEN <<StopGameAction>> ELSE <<>>)
            \o (IF feedbackDue /\ cur.showFeedbackUntil - now <= 0
                THEN <<ClearFeedbackAction(now)>> ELSE <<>>),
         isActive |-> IF ended THEN FALSE ELSE d.isActive,
         gameLoop |->
            IF ended THEN NULL
            ELSE IF loops THEN Some([status |-> cur.status])
            ELSE IF cleared THEN NULL ELSE d.gameLoop,
         elapsed |->
            IF ended THEN NULL
            ELSE IF loops
                 THEN Some([status |-> cur.status, elapsedTime |-> cur.elapsedTime])
            ELSE IF cleared THEN NULL ELSE d.elapsed,
         feedbackTimeout |->
            IF ended THEN NULL
            ELSE IF feedbackChanged
                 THEN (IF feedbackDue /\ cur.showFeedbackUntil - now > 0
                       THEN Some(cur.showFeedbackUntil) ELSE NULL)
            ELSE IF cleared THEN NULL ELSE d.feedbackTimeout,
         visualStimulusTimeout |->
            IF ended THEN FALSE
            ELSE IF visualChanged THEN visualDue
            ELSE IF cleared THEN FALSE ELSE d.visualStimulusTimeout]

\* the render React committed last still has effects to run
EffectsPending == driver.commit # driver.effects

\* React's work: it runs the effects pending from the last render, then
\* renders Game with the props and state as they are now.
React ==
    /\ ~threw
    /\ EffectsPending \/ driver.commit # Render(driver.isActive, state)
    /\ LET e == IF EffectsPending
                THEN RunEffects(driver)
                ELSE [actions |-> <<>>,
                      isActive |-> driver.isActive,
                      gameLoop |-> driver.gameLoop,
                      elapsed |-> driver.elapsed,
                      feedbackTimeout |-> driver.feedbackTimeout,
                      visualStimulusTimeout |-> driver.visualStimulusTimeout]
           s == DispatchAll(state, e.actions)
       IN  /\ state' = s
           /\ driver' = [isActive |-> e.isActive,
                         commit |-> Render(e.isActive, s),
                         effects |-> driver.commit,
                         gameLoop |-> e.gameLoop,
                         elapsed |-> e.elapsed,
                         feedbackTimeout |-> e.feedbackTimeout,
                         visualStimulusTimeout |-> e.visualStimulusTimeout]
    /\ UNCHANGED <<now, threw, props, generated, gen>>

\* App handleStartGame: setIsPlaying(true)
Activate ==
    /\ ~threw
    /\ ~driver.isActive
    /\ driver' = [driver EXCEPT !.isActive = TRUE]
    /\ UNCHANGED <<state, now, threw, props, generated, gen>>

\* App: Escape key, handleReturnToSettings: setIsPlaying(false)
Deactivate ==
    /\ ~threw
    /\ driver.isActive
    /\ driver' = [driver EXCEPT !.isActive = FALSE]
    /\ UNCHANGED <<state, now, threw, props, generated, gen>>

\* The pending trial tick fires.  The callback reads the status of the
\* render that created it, and schedules itself again.
gameTick ==
    /\ ~threw
    /\ driver.gameLoop # NULL
    /\ IF Val(driver.gameLoop).status # "running"
       THEN /\ state' = state
            /\ driver' = [driver EXCEPT !.gameLoop = NULL]
       ELSE /\ state' = gameReducer(state, NextTrialAction(now, props))
            /\ driver' = driver
    /\ UNCHANGED <<now, threw, props, generated, gen>>

\* The pending elapsed-time tick fires, one second after the tick before.
\* The callback reads the status and the elapsed time of the render that
\* created it.
elapsedTick ==
    /\ ~threw
    /\ driver.elapsed # NULL
    /\ LET closure == Val(driver.elapsed)
           newElapsedTime == closure.elapsedTime + 1
       IN  IF closure.status # "running"
           THEN /\ state' = state
                /\ driver' = [driver EXCEPT !.elapsed = NULL]
           ELSE IF newElapsedTime >= sessionDuration
           THEN /\ state' = DispatchAll(state,
                        <<UpdateElapsedTimeAction(newElapsedTime), EndSessionAction>>)
                /\ driver' = [driver EXCEPT !.elapsed = NULL]
           ELSE /\ state' = gameReducer(state, UpdateElapsedTimeAction(newElapsedTime))
                /\ driver' = driver
    /\ UNCHANGED <<now, threw, props, generated, gen>>

\* The feedback timeout fires once the clock has reached its time.
feedbackTimeout ==
    /\ ~threw
    /\ driver.feedbackTimeout # NULL
    /\ now >= Val(driver.feedbackTimeout)
    /\ state' = gameReducer(state, ClearFeedbackAction(now))
    /\ driver' = [driver EXCEPT !.feedbackTimeout = NULL]
    /\ UNCHANGED <<now, threw, props, generated, gen>>

\* The visual stimulus timeout fires.
visualStimulusTimeout ==
    /\ ~threw
    /\ driver.visualStimulusTimeout
    /\ state' = gameReducer(state, ClearVisualStimulusAction)
    /\ driver' = [driver EXCEPT !.visualStimulusTimeout = FALSE]
    /\ UNCHANGED <<now, threw, props, generated, gen>>

\* pause and resume are events of the engine that no component dispatches:
\* they come from outside the driver.
DriverNext ==
    \/ Activate
    \/ Deactivate
    \/ React
    \/ gameTick
    \/ elapsedTick
    \/ feedbackTimeout
    \/ visualStimulusTimeout
    \/ pause
    \/ resume
    \/ Tick

\* The driver is followed on the sessions of the smallest N-level.
DriverInit ==
    /\ Init
    /\ props.nLevel = MIN_N_LEVEL

DriverSpec == DriverInit /\ [][DriverNext]_vars

(* ----------------------------------------------------------------- claims *)
\* The state an event leaves when dispatched in the current state.
After(action) == gameReducer(state, action)

Pressed == Some(TRUE)
Started == state.settings # NULL
NLevel == Val(state.settings).nLevel
Enabled(channel) ==
    IF channel = "visual" THEN Val(state.settings).gameMode # "Audio"
    ELSE Val(state.settings).gameMode # "Visual"
Other(channel) == IF channel = "visual" THEN "audio" ELSE "visual"
\* the value a stimulus carries on a channel
Value(stimulus, channel) ==
    IF channel = "visual" THEN stimulus.visualPosition ELSE stimulus.audioLetter
\* trial i repeats, on the channel, the value of trial i - n
Repeats(i, n, channel) ==
    Value(At(state.stimulusSequence, i), channel)
        = Value(At(state.stimulusSequence, i - n), channel)
AllUnanswered(responses) ==
    \A i \in DOMAIN responses :
        responses[i].visual = NULL /\ responses[i].audio = NULL

\* The sessions start is tried with in every reachable state: the one the
\* driver passes, and every session of at most one stimulus (other settings,
\* other lengths than the session in progress).
ShortSessions ==
    SessionsOf("Visual", MaxN, 1) \cup SessionsOf("Audio", MaxN, 1)
        \cup SessionsOf("Dual", MIN_N_LEVEL, 1)
StartInputs == {[settings |-> props, sequence |-> generated]} \cup ShortSessions

\* C1: start(settings, sequence), issued in any reachable state, leaves
\* status idle, trial index -1, score 0, elapsed time 0, no active stimulus,
\* feedback {null, null}, no Results, the given settings and sequence, and
\* one unanswered response slot per sequence element.
C1_StartResets ==
    \A session \in StartInputs :
        After(StartGameAction(session.settings, session.sequence)) =
            [status |-> "idle",
             currentTrial |-> -1,
             score |-> 0,
             elapsedTime |-> 0,
             activeVisualStimulus |-> NULL,
             activeAudioStimulus |-> NULL,
             feedback |-> [visual |-> NULL, audio |-> NULL],
             showFeedbackUntil |-> 0,
             results |-> NULL,
             settings |-> Some(session.settings),
             stimulusSequence |-> session.sequence,
             userResponses |-> [i \in 1..Len(session.sequence) |->
                                   [visual |-> NULL, audio |-> NULL]]]

\* start is issued in the middle of a running session that has a score, a
\* recorded response, feedback showing and elapsed time, and resets it.
C1_Witness ==
    /\ state.status = "running"
    /\ state.currentTrial >= 1
    /\ state.score # 0
    /\ state.elapsedTime > 0
    /\ state.feedback # NoFeedback
    /\ ~AllUnanswered(state.userResponses)
    /\ After(StartGameAction(props, generated)) # state
    /\ After(StartGameAction(props, generated)).score = 0

\* C2: stop(), issued in any reachable state, leaves status idle, trial
\* index -1, score 0, every response slot unanswered, no active stimulus,
\* feedback {null, null} and no Results.
C2_StopResets ==
    LET r == After(StopGameAction) IN
    /\ r.status = "idle"
    /\ r.currentTrial = -1
    /\ r.score = 0
    /\ Len(r.userResponses) = Len(state.stimulusSequence)
    /\ AllUnanswered(r.userResponses)
    /\ r.activeVisualStimulus = NULL
    /\ r.activeAudioStimulus = NULL
    /\ r.feedback = [visual |-> NULL, audio |-> NULL]
    /\ r.results = NULL

\* stop is issued mid-trial in a session that has a score, feedback showing,
\* an active stimulus, a recorded response and Results attached, and resets it.
C2_Witness ==
    /\ state.status \in {"running", "paused", "finished"}
    /\ state.currentTrial >= 1
    /\ state.score # 0
    /\ state.feedback # NoFeedback
    /\ state.results # NULL
    /\ state.activeVisualStimulus # NULL
    /\ ~AllUnanswered(state.userResponses)
    /\ After(StopGameAction).status = "idle"
    /\ AllUnanswered(After(StopGameAction).userResponses)

\* C3: run, pause and resume take effect only from idle, running and paused
\* respectively, and then change nothing but the status; from any other
\* status they return the state unchanged.
C3_RunPauseResume ==
    /\ After(RunGameAction) =
         IF state.status = "idle" THEN [state EXCEPT !.status = "running"] ELSE state
    /\ After(PauseGameAction) =
         IF state.status = "running" THEN [state EXCEPT !.status = "paused"] ELSE state
    /\ After(ResumeGameAction) =
         IF state.status = "paused" THEN [state EXCEPT !.status = "running"] ELSE state

\* A paused session mid-trial: run and pause are no-ops, resume takes effect.
C3_Witness ==
    /\ state.status = "paused"
    /\ state.currentTrial >= 0
    /\ After(RunGameAction) = state
    /\ After(PauseGameAction) = state
    /\ After(ResumeGameAction) # state
    /\ After(ResumeGameAction).status = "running"

\* Every event that can be dispatched in the current state and returns
\* (registerResponse before any session raises instead).
Events ==
    {StartGameAction(props, generated), RunGameAction, StopGameAction,
     PauseGameAction, ResumeGameAction, NextTrialAction(now, props),
     ClearFeedbackAction(now), ClearVisualStimulusAction, EndSessionAction}
    \cup {UpdateElapsedTimeAction(payload) : payload \in 0..MaxElapsed}
    \cup (IF Started
          THEN {RegisterResponseAction(responseType, now, props) :
                    responseType \in ResponseType}
          ELSE {})

\* The status edges C4 lists.
ListedEdge(from, type, to) ==
    \/ from = "idle" /\ type = "RUN_GAME" /\ to = "running"
    \/ from = "running" /\ type = "PAUSE_GAME" /\ to = "paused"
    \/ from = "paused" /\ type = "RESUME_GAME" /\ to = "running"
    \/ from = "running" /\ type \in {"NEXT_TRIAL", "END_SESSION"} /\ to = "finished"
    \/ type \in {"START_GAME", "STOP_GAME"} /\ to = "idle"

\* C4 as stated: the status changes only along idle -> running (run),
\* running -> paused (pause), paused -> running (resume), running -> finished
\* (advanceTrial, endSession) and any -> idle (start, stop).
C4_ListedEdgesOnly ==
    \A action \in Events :
        After(action).status # state.status
            => ListedEdge(state.status, action.type, After(action).status)

\* C4 amended: besides run, pause, resume, start and stop as listed, finished
\* is entered from any status, by advanceTrial once the sequence is exhausted
\* and by endSession with settings present, and the status 'settings' is
\* entered from any status by endSession with no settings present.
C4_StatusEdges ==
    \A action \in Events :
        LET from == state.status
            to == After(action).status
        IN  to # from =>
            \/ from = "idle" /\ action.type = "RUN_GAME" /\ to = "running"
            \/ from = "running" /\ action.type = "PAUSE_GAME" /\ to = "paused"
            \/ from = "paused" /\ action.type = "RESUME_GAME" /\ to = "running"
            \/ action.type \in {"START_GAME", "STOP_GAME"} /\ to = "idle"
            \/ /\ action.type = "NEXT_TRIAL" /\ to = "finished"
               /\ state.currentTrial + 1 >= Len(state.stimulusSequence)
            \/ action.type = "END_SESSION" /\ to = "finished" /\ state.settings # NULL
            \/ action.type = "END_SESSION" /\ to = "settings" /\ state.settings = NULL

\* A paused session mid-trial: endSession takes it to finished, and run does
\* not take it to running.
C4_Witness ==
    /\ state.status = "paused"
    /\ state.currentTrial >= 0
    /\ state.currentTrial + 1 < Len(state.stimulusSequence)
    /\ After(EndSessionAction).status = "finished"
    /\ After(NextTrialAction(now, props)).status = "paused"
    /\ After(RunGameAction).status = "paused"

\* C5 as stated: advanceTrial issued while the status is not running leaves
\* status, trial index, score, active stimuli and feedback unchanged.
C5_AdvanceOnlyWhileRunning ==
    state.status # "running" =>
        LET r == After(NextTrialAction(now, props)) IN
        /\ r.status = state.status
        /\ r.currentTrial = state.currentTrial
        /\ r.score = state.score
        /\ r.activeVisualStimulus = state.activeVisualStimulus
        /\ r.activeAudioStimulus = state.activeAudioStimulus
        /\ r.feedback = state.feedback

\* C6: in a running session of L stimuli an advance at trial index c < L - 1
\* moves to index c + 1 and exposes the stimulus of that index, without
\* changing the status; the index stays within -1..L-1, so after start
\* (index -1) the k-th advance exposes sequence[k-1].  The advance at index
\* L - 1 changes nothing but the status, which becomes finished.
C6_AdvanceExposesInOrder ==
    LET L == Len(state.stimulusSequence)
        next == state.currentTrial + 1
        r == After(NextTrialAction(now, props))
    IN  /\ state.currentTrial \in -1..(L - 1)
        /\ state.status = "running" =>
            IF next < L
            THEN /\ r.currentTrial = next
                 /\ r.activeVisualStimulus = At(state.stimulusSequence, next).visualPosition
                 /\ r.activeAudioStimulus = At(state.stimulusSequence, next).audioLetter
                 /\ r.status = "running"
                 /\ r.stimulusSequence = state.stimulusSequence
            ELSE r = [state EXCEPT !.status = "finished"]

\* A running session whose last stimulus is exposed: the next advance
\* finishes it and attaches no Results.
C6_Witness ==
    /\ state.status = "running"
    /\ Len(state.stimulusSequence) >= 3
    /\ state.currentTrial = Len(state.stimulusSequence) - 1
    /\ state.activeAudioStimulus = At(state.stimulusSequence, state.currentTrial).audioLetter
    /\ state.activeAudioStimulus # NULL
    /\ state.results = NULL
    /\ After(NextTrialAction(now, props)).status = "finished"
    /\ After(NextTrialAction(now, props)).results = NULL

\* the channel is enabled, trial c is a true N-back match on it and the
\* response recorded for it is not "pressed"
Missed(c, channel) ==
    /\ Enabled(channel)
    /\ Repeats(c, NLevel, channel)
    /\ At(state.userResponses, c)[channel] # Pressed

\* C7: when advanceTrial moves a running session from trial c to c + 1 with
\* c >= N, each channel gets feedback 'miss' exactly when it is enabled,
\* sequence[c] equals sequence[c-N] on it and its response at c is not
\* pressed; the score drops by the number of such channels, and with any miss
\* the feedback expires at currentTime + FEEDBACK_DURATION_MS.  With c < N
\* the score is unchanged and no miss is shown.
C7_MissOnAdvance ==
    (/\ Started
     /\ state.status = "running"
     /\ state.currentTrial + 1 < Len(state.stimulusSequence)) =>
        LET c == state.currentTrial
            r == After(NextTrialAction(now, props))
            missed == {channel \in ResponseType : Missed(c, channel)}
        IN  IF c >= NLevel
            THEN /\ \A channel \in ResponseType :
                        r.feedback[channel] = Some("miss") <=> channel \in missed
                 /\ r.score = state.score - Cardinality(missed)
                 /\ missed # {} => r.showFeedbackUntil = now + FEEDBACK_DURATION_MS
            ELSE /\ r.score = state.score
                 /\ \A channel \in ResponseType : r.feedback[channel] # Some("miss")

\* A running Dual session leaves a trial that matched on both channels with
\* neither pressed, after the clock has moved: two misses, score - 2.
C7_Witness ==
    /\ Started
    /\ state.status = "running"
    /\ now > 0
    /\ state.currentTrial >= NLevel
    /\ state.currentTrial + 1 < Len(state.stimulusSequence)
    /\ Missed(state.currentTrial, "visual")
    /\ Missed(state.currentTrial, "audio")
    /\ After(NextTrialAction(now, props)).score = state.score - 2
    /\ After(NextTrialAction(now, props)).feedback =
            [visual |-> Some("miss"), audio |-> Some("miss")]

\* C8 as stated: registerResponse issued in a started session whose status
\* is not running, at a trial index >= N, leaves score, responses, feedback
\* and feedback expiry unchanged.
C8_ResponseOnlyWhileRunning ==
    (/\ Started
     /\ state.status # "running"
     /\ state.currentTrial >= NLevel) =>
        \A responseType \in ResponseType :
            LET r == After(RegisterResponseAction(responseType, now, props)) IN
            /\ r.score = state.score
            /\ r.userResponses = state.userResponses
            /\ r.feedback = state.feedback
            /\ r.showFeedbackUntil = state.showFeedbackUntil

\* C9: in a started session registerResponse(channel) leaves the whole state
\* unchanged when the trial index is below N, and when the channel already
\* has a recorded response for the current trial.
C9_StaleResponseIgnored ==
    Started =>
        \A responseType \in ResponseType :
            (\/ state.currentTrial < NLevel
             \/ At(state.userResponses, state.currentTrial)[responseType] # NULL)
                => After(RegisterResponseAction(responseType, now, props)) = state

\* A running session in which the visual channel is already answered for the
\* current trial and its feedback has been cleared: a second press changes
\* nothing, while a press on the unanswered audio channel would.
C9_Witness ==
    /\ Started
    /\ state.status = "running"
    /\ state.currentTrial >= NLevel
    /\ At(state.userResponses, state.currentTrial).visual = Pressed
    /\ At(state.userResponses, state.currentTrial).audio = NULL
    /\ state.feedback = NoFeedback
    /\ After(RegisterResponseAction("visual", now, props)) = state
    /\ After(RegisterResponseAction("audio", now, props)) # state

\* C10: in a running session at trial c >= N, registerResponse at time t on
\* an enabled channel with no recorded response sets that channel's feedback
\* to 'correct' and adds 1 to the score if sequence[c] equals sequence[c-N]
\* on the channel, and to 'false-alarm' and subtracts 1 otherwise; it records
\* the response as pressed, sets the expiry to t + FEEDBACK_DURATION_MS and
\* leaves the other channel's response and feedback unchanged.
C10_AcceptedResponse ==
    (Started /\ state.status = "running" /\ state.currentTrial >= NLevel) =>
        \A channel \in ResponseType :
            (Enabled(channel) /\ At(state.userResponses, state.currentTrial)[channel] = NULL) =>
                LET c == state.currentTrial
                    r == After(RegisterResponseAction(channel, now, props))
                    match == Repeats(c, NLevel, channel)
                IN  /\ r.feedback[channel] = Some(IF match THEN "correct" ELSE "false-alarm")
                    /\ r.score = state.score + (IF match THEN 1 ELSE -1)
                    /\ At(r.userResponses, c)[channel] = Pressed
                    /\ r.showFeedbackUntil = now + FEEDBACK_DURATION_MS
                    /\ At(r.userResponses, c)[Other(channel)]
                            = At(state.userResponses, c)[Other(channel)]
                    /\ r.feedback[Other(channel)] = state.feedback[Other(channel)]

\* A running Dual session, the clock moved, audio already answered correctly
\* and its feedback showing: a visual press on a non-match is a false alarm
\* and leaves the audio response and feedback as they are.
C10_Witness ==
    /\ Started
    /\ state.status = "running"
    /\ now > 0
    /\ state.currentTrial >= NLevel
    /\ At(state.userResponses, state.currentTrial) = [visual |-> NULL, audio |-> Pressed]
    /\ state.feedback = [visual |-> NULL, audio |-> Some("correct")]
    /\ ~Repeats(state.currentTrial, NLevel, "visual")
    /\ After(RegisterResponseAction("visual", now, props)).feedback
            = [visual |-> Some("false-alarm"), audio |-> Some("correct")]
    /\ After(RegisterResponseAction("visual", now, props)).score = state.score - 1

\* the channel shows feedback of a response ('correct' or 'false-alarm',
\* which only registerResponse produces) that has not expired yet
ResponseFeedbackShowing(channel) ==
    /\ state.feedback[channel] \in {Some("correct"), Some("false-alarm")}
    /\ now < state.showFeedbackUntil

\* C11 as stated: feedback produced by registerResponse stays set for its
\* channel until the clock reaches its expiry: neither clearFeedback nor
\* advanceTrial issued before that time removes it.
C11_FeedbackStaysUntilExpiry ==
    \A channel \in ResponseType :
        (state.status = "running" /\ ResponseFeedbackShowing(channel)) =>
            /\ After(ClearFeedbackAction(now)).feedback[channel] = state.feedback[channel]
            /\ After(NextTrialAction(now, props)).feedback[channel] = state.feedback[channel]

\* C12: endSession with settings present sets status finished, attaches the
\* Results calculateResults gives for the session's settings, sequence and
\* responses, clears both active stimuli and both feedback channels, and
\* leaves score, trial index, responses, sequence and settings unchanged.
C12_EndSessionAttachesResults ==
    Started =>
        LET r == After(EndSessionAction) IN
        /\ r.status = "finished"
        /\ r.results = Some(calculateResults(Val(state.settings),
                [stimulusSequence |-> state.stimulusSequence,
                 userResponses |-> state.userResponses]))
        /\ r.activeVisualStimulus = NULL
        /\ r.activeAudioStimulus = NULL
        /\ r.feedback = [visual |-> NULL, audio |-> NULL]
        /\ r.score = state.score
        /\ r.currentTrial = state.currentTrial
        /\ r.userResponses = state.userResponses
        /\ r.stimulusSequence = state.stimulusSequence
        /\ r.settings = state.settings

\* A running session with a score, a recorded response, feedback showing and
\* an active stimulus is ended: the Results count the match that was hit.
C12_Witness ==
    /\ Started
    /\ state.status = "running"
    /\ state.results = NULL
    /\ state.score # 0
    /\ state.feedback # NoFeedback
    /\ state.activeVisualStimulus # NULL
    /\ ~AllUnanswered(state.userResponses)
    /\ After(EndSessionAction).status = "finished"
    /\ After(EndSessionAction).feedback = NoFeedback
    /\ Val(Val(After(EndSessionAction).results).visual).hits >= 1

\* C13: endSession issued when no session was ever started (settings
\* absent) computes no Results: the status becomes 'settings', Results stay
\* absent and every other field is unchanged.
C13_EndSessionWithoutSettings ==
    ~Started =>
        /\ state.results = NULL
        /\ After(EndSessionAction) = [state EXCEPT !.status = "settings"]

\* Before any start, with the elapsed time already updated, endSession only
\* moves the status to 'settings'.
C13_Witness ==
    /\ ~Started
    /\ state.status = "idle"
    /\ state.elapsedTime > 0
    /\ After(EndSessionAction).status = "settings"
    /\ After(EndSessionAction).elapsedTime = state.elapsedTime
    /\ After(EndSessionAction).results = NULL

\* C14: clearFeedback before the feedback-expiry timestamp leaves the state
\* unchanged; once the timestamp has passed it sets feedback to {null, null};
\* applied twice at the same clock value it gives the same state as once.
C14_ClearFeedback ==
    LET once == After(ClearFeedbackAction(now)) IN
    /\ now < state.showFeedbackUntil => once = state
    /\ now >= state.showFeedbackUntil => once.feedback = [visual |-> NULL, audio |-> NULL]
    /\ gameReducer(once, ClearFeedbackAction(now)) = once

\* Feedback is showing and the clock has reached its expiry timestamp:
\* clearFeedback removes it.
C14_Witness ==
    /\ state.feedback # NoFeedback
    /\ state.showFeedbackUntil > 0
    /\ now >= state.showFeedbackUntil
    /\ After(ClearFeedbackAction(now)) # state
    /\ After(ClearFeedbackAction(now)).feedback = NoFeedback

\* C15 as stated: in every reachable state whose status is finished,
\* Results are attached.
C15_FinishedHasResults ==
    state.status = "finished" => state.results # NULL

\* C16 as stated: once Results are attached to a finished session, no event
\* other than start or stop leads to a state whose Results differ.
C16_ResultsImmutable ==
    (state.status = "finished" /\ state.results # NULL) =>
        \A action \in Events :
            action.type \notin {"START_GAME", "STOP_GAME"}
                => After(action).results = state.results

\* C17 as stated: after start(settings, []) the status stays idle: neither
\* run nor advanceTrial moves it to running or finished.
C17_EmptySequenceStaysIdle ==
    (Started /\ Len(state.stimulusSequence) = 0 /\ state.status = "idle") =>
        /\ After(RunGameAction).status = "idle"
        /\ After(NextTrialAction(now, props)).status = "idle"

\* What calculateResults gives for the session as it stands.
Scored == calculateResults(Val(state.settings), state)

\* the trials the calculator scores on a channel: i from N to length - 1
\* with a value at i and at i - N
ScoredTrials(channel) ==
    {i \in NLevel..(Len(state.stimulusSequence) - 1) :
        /\ Value(At(state.stimulusSequence, i), channel) # NULL
        /\ Value(At(state.stimulusSequence, i - NLevel), channel) # NULL}

PressedAt(i, channel) == At(state.userResponses, i)[channel] = Pressed

\* C19: for each enabled channel calculateResults counts, over the scored
\* trials: totalMatches = the trials with equal values, hits = those of them
\* pressed, misses = those of them not pressed, falseAlarms = the trials
\* with different values that are pressed; so hits + misses = totalMatches
\* and a non-match that is not pressed counts nowhere.
C19_ScoringCounts ==
    Started =>
        \A channel \in ResponseType :
            Enabled(channel) =>
                LET r == Val(Scored[channel])
                    matches == {i \in ScoredTrials(channel) : Repeats(i, NLevel, channel)}
                    others == ScoredTrials(channel) \ matches
                IN  /\ r.totalMatches = Cardinality(matches)
                    /\ r.hits = Cardinality({i \in matches : PressedAt(i, channel)})
                    /\ r.misses = Cardinality({i \in matches : ~PressedAt(i, channel)})
                    /\ r.falseAlarms = Cardinality({i \in others : PressedAt(i, channel)})
                    /\ r.hits + r.misses = r.totalMatches

\* A finished Visual session whose attached Results count a hit, a miss and
\* a false alarm.
C19_Witness ==
    /\ Started
    /\ state.status = "finished"
    /\ Val(state.settings).gameMode = "Visual"
    /\ state.results = Some(Scored)
    /\ Val(Scored.visual).hits = 1
    /\ Val(Scored.visual).misses = 1
    /\ Val(Scored.visual).falseAlarms = 1
    /\ Val(Scored.visual).totalMatches = 2

\* the fraction rate[1] / rate[2] equals num / den
RateIs(rate, num, den) == rate[2] # 0 /\ den # 0 /\ rate[1] * den = num * rate[2]

\* C20: for each enabled channel of computed Results, errors = misses +
\* falseAlarms; rate = (totalMatches - errors) / totalMatches * 100 when
\* totalMatches > 0, and with totalMatches = 0 the rate is 100 if errors = 0
\* and 0 otherwise.
C20_ErrorsAndRate ==
    Started =>
        \A channel \in ResponseType :
            Enabled(channel) =>
                LET r == Val(Scored[channel]) IN
                /\ r.errors = r.misses + r.falseAlarms
                /\ IF r.totalMatches > 0
                   THEN RateIs(r.rate, (r.totalMatches - r.errors) * 100, r.totalMatches)
                   ELSE RateIs(r.rate, IF r.errors = 0 THEN 100 ELSE 0, 1)

\* A finished Dual session whose attached Results have a missed visual match
\* (rate 0 of one match) and an audio false alarm with no audio match at all
\* (rate 0 without a division).
C20_Witness ==
    /\ Started
    /\ state.status = "finished"
    /\ Val(state.settings).gameMode = "Dual"
    /\ state.results = Some(Scored)
    /\ Val(Scored.visual).totalMatches > 0
    /\ Val(Scored.visual).errors > 0
    /\ Val(Scored.audio).totalMatches = 0
    /\ Val(Scored.audio).errors > 0
    /\ Val(Scored.audio).rate = <<0, 1>>

\* The state the pending trial tick leaves when it fires now.
GameTickOutcome ==
    IF Val(driver.gameLoop).status = "running"
    THEN gameReducer(state, NextTrialAction(now, props))
    ELSE state

\* C18 as stated: once stop() or pause() has taken effect (status idle or
\* paused), no pending trial tick advances the trial index, whatever the
\* order in which the timers and React's work run.
C18_NoAdvanceWhileStopped ==
    (state.status \in {"idle", "paused"} /\ driver.gameLoop # NULL) =>
        GameTickOutcome.currentTrial = state.currentTrial

\* the sum of a counter over the enabled channels of computed Results
Total(results, field) ==
    (IF Enabled("visual") THEN Val(results.visual)[field] ELSE 0)
    + (IF Enabled("audio") THEN Val(results.audio)[field] ELSE 0)

\* C21: the overall success rate of computed Results is (sum of hits over
\* the enabled channels) / (sum of totalMatches over the enabled channels)
\* * 100, and 0 when no enabled channel has a match; a channel the game mode
\* disables has null metrics, an enabled one has a record.
C21_OverallSuccessRate ==
    Started =>
        LET results == Scored
            hits == Total(results, "hits")
            totalMatches == Total(results, "totalMatches")
        IN  /\ \A channel \in ResponseType :
                    (results[channel] = NULL) <=> ~Enabled(channel)
            /\ IF totalMatches > 0
               THEN RateIs(results.overallSuccessRate, hits * 100, totalMatches)
               ELSE results.overallSuccessRate = <<0, 1>>

\* A finished Dual session whose attached Results have a visual match that
\* was hit and an audio match that was missed: overall rate 50.
C21_Witness ==
    /\ Started
    /\ state.status = "finished"
    /\ Val(state.settings).gameMode = "Dual"
    /\ state.results = Some(Scored)
    /\ Val(Scored.visual).totalMatches = 1
    /\ Val(Scored.visual).hits = 1
    /\ Val(Scored.audio).totalMatches = 1
    /\ Val(Scored.audio).hits = 0
    /\ RateIs(Scored.overallSuccessRate, 50, 1)

\* C22: scoring a session in which nothing was pressed gives, for every
\* enabled channel, hits = 0, falseAlarms = 0, misses = totalMatches, and
\* rate 0 if totalMatches > 0 and 100 otherwise, whatever the sequence and
\* the N-level.
C22_SilentSessionScore ==
    (Started /\ AllUnanswered(state.userResponses)) =>
        LET results == Val(After(EndSessionAction).results) IN
        \A channel \in ResponseType :
            Enabled(channel) =>
                LET r == Val(results[channel]) IN
                /\ r.hits = 0
                /\ r.falseAlarms = 0
                /\ r.misses = r.totalMatches
                /\ r.totalMatches =
                      Cardinality({i \in ScoredTrials(channel) : Repeats(i, NLevel, channel)})
                /\ RateIs(r.rate, IF r.totalMatches > 0 THEN 0 ELSE 100, 1)

\* A Visual session that ended with two matches and nothing pressed: two
\* misses, rate 0.
C22_Witness ==
    /\ Started
    /\ state.status = "finished"
    /\ Val(state.settings).gameMode = "Visual"
    /\ AllUnanswered(state.userResponses)
    /\ state.results = Some(Scored)
    /\ Val(Scored.visual).totalMatches = 2
    /\ Val(Scored.visual).misses = 2
    /\ Val(Scored.visual).hits = 0
    /\ Val(Scored.visual).rate = <<0, 2>>

\* the N-level of the session is at least the length of its sequence
WindowNeverOpens == Started /\ NLevel >= Len(state.stimulusSequence)

\* C24: when the N-level is at least the sequence length, no event raises,
\* no event records a response or changes the score (both stay as start
\* left them), and the Results computed when the session ends show, for
\* every enabled channel, totalMatches 0, errors 0 and rate 100, with
\* overall success rate 0.
C24_WindowNeverOpens ==
    WindowNeverOpens =>
        /\ ~threw
        /\ state.score = 0
        /\ AllUnanswered(state.userResponses)
        /\ \A responseType \in ResponseType :
                ~RegisterResponseThrows(state,
                    RegisterResponseAction(responseType, now, props))
        /\ \A e \in Events :
                /\ After(e).score = state.score
                /\ After(e).userResponses = state.userResponses
        /\ LET results == Val(After(EndSessionAction).results) IN
           /\ \A channel \in ResponseType :
                Enabled(channel) =>
                    /\ results[channel] # NULL
                    /\ Val(results[channel]).totalMatches = 0
                    /\ Val(results[channel]).errors = 0
                    /\ RateIs(Val(results[channel]).rate, 100, 1)
           /\ RateIs(results.overallSuccessRate, 0, 1)

\* A Dual session of one stimulus and N-level 1, ended after its only trial
\* was shown: both channels have rate 100 without a match, overall rate 0.
C24_Witness ==
    /\ WindowNeverOpens
    /\ Val(state.settings).gameMode = "Dual"
    /\ Len(state.stimulusSequence) = 1
    /\ state.currentTrial = 0
    /\ state.status = "finished"
    /\ state.results = Some(Scored)
    /\ Val(Scored.visual).rate = <<100, 1>>
    /\ Val(Scored.audio).rate = <<100, 1>>
    /\ Scored.overallSuccessRate = <<0, 1>>

\* the events other than start and stop
SessionEvents == {e \in Events : e.type \notin {"START_GAME", "STOP_GAME"}}

\* C29: no event other than start or stop moves the trial index back or
\* changes the number of response slots, and the only change such an event
\* makes to a slot is a user response turning one channel of the current
\* trial's slot from unanswered to pressed; the slots of the trials not yet
\* shown are unanswered.  So each channel of a slot changes at most once, and
\* never after advanceTrial has moved past its trial.
C29_ResponsesWrittenOnce ==
    /\ \A i \in DOMAIN state.userResponses :
            \A channel \in ResponseType :
                /\ state.userResponses[i][channel] \in {NULL, Pressed}
                /\ i - 1 > state.currentTrial => state.userResponses[i][channel] = NULL
    /\ \A e \in SessionEvents :
        LET after == After(e) IN
        /\ after.currentTrial >= state.currentTrial
        /\ \/ after.userResponses = state.userResponses
           \/ /\ DOMAIN after.userResponses = DOMAIN state.userResponses
              /\ \A i \in DOMAIN state.userResponses :
                    \A channel \in ResponseType :
                        after.userResponses[i][channel] # state.userResponses[i][channel] =>
                            /\ e.type = "REGISTER_RESPONSE"
                            /\ e.responseType = channel
                            /\ i - 1 = state.currentTrial
                            /\ state.userResponses[i][channel] = NULL
                            /\ after.userResponses[i][channel] = Pressed

\* A session with a pressed slot behind the current trial and a user response
\* that is recorded on the current trial's slot: the slot behind stays.
C29_Witness ==
    /\ Started
    /\ \E i \in 0..(state.currentTrial - 1) :
            \E channel \in ResponseType :
                LET after == After(RegisterResponseAction(channel, now, props)) IN
                /\ PressedAt(i, channel)
                /\ At(state.userResponses, state.currentTrial)[channel] = NULL
                /\ At(after.userResponses, state.currentTrial)[channel] = Pressed
                /\ At(after.userResponses, i) = At(state.userResponses, i)

(* ------------------------------------------------ the scenario A B A C A *)
\* Visual mode, N = 2, the positions A, B, A, C, A.
ScenarioSettings == [gameMode |-> "Visual", nLevel |-> 2]
ScenarioSequence ==
    [i \in 1..5 |->
        [visualPosition |-> Some(<<0, 1, 0, 2, 0>>[i]), audioLetter |-> NULL]]
\* visual pressed at index 2 and nowhere else
ScenarioResponses ==
    [i \in 1..5 |-> IF i = 3 THEN [visual |-> Pressed, audio |-> NULL]
                    ELSE EmptyResponse]

\* The engine started by the driver on the scenario's session.
ScenarioInit ==
    /\ state = initialState
    /\ now = 0
    /\ threw = FALSE
    /\ driver = mounted
    /\ gen = NULL
    /\ props = ScenarioSettings
    /\ generated = ScenarioSequence

ScenarioSpec == ScenarioInit /\ [][Next]_vars

\* the scenario's session has been shown to its last trial with the visual
\* key pressed at index 2 only
ScenarioPlayed ==
    /\ Started
    /\ state.stimulusSequence = ScenarioSequence
    /\ state.currentTrial = Len(ScenarioSequence) - 1
    /\ state.userResponses = ScenarioResponses

\* C23 as stated: the scenario's visual Results are totalMatches = 2,
\* hits = 1, misses = 1, falseAlarms = 0, errors = 1 and rate = 0.0.
C23_ScenarioAsStated ==
    ScenarioPlayed =>
        LET r == Val(Val(After(EndSessionAction).results).visual) IN
        /\ r.totalMatches = 2
        /\ r.hits = 1
        /\ r.misses = 1
        /\ r.falseAlarms = 0
        /\ r.errors = 1
        /\ RateIs(r.rate, 0, 1)

\* C23: Visual mode, N = 2, sequence A B A C A, visual pressed at index 2
\* only, the session driven to its last trial and ended: the visual Results
\* are totalMatches = 2, hits = 1, misses = 1, falseAlarms = 0, errors = 1
\* and rate = (2 - 1) / 2 * 100 = 50; the audio metrics are null and the
\* overall success rate is 50.
C23_ScenarioScore ==
    ScenarioPlayed =>
        LET results == Val(After(EndSessionAction).results)
            r == Val(results.visual)
        IN  /\ r.totalMatches = 2
            /\ r.hits = 1
            /\ r.misses = 1
            /\ r.falseAlarms = 0
            /\ r.errors = 1
            /\ RateIs(r.rate, 50, 1)
            /\ results.audio = NULL
            /\ RateIs(results.overallSuccessRate, 50, 1)

\* The scenario's session, finished by endSession after its last trial, with
\* the Results of its responses attached and one point for the hit.
C23_Witness ==
    /\ ScenarioPlayed
    /\ state.status = "finished"
    /\ state.results = Some(Scored)
    /\ Val(Scored.visual).hits = 1
    /\ Val(Scored.visual).misses = 1
    /\ state.score = 1

(* ------------------------------ utils/gameLogic.ts: generateSequence *)
\* A call of generateSequence(settings).  `gen` holds the locals of the call;
\* a step is one iteration of its loop, with the outcomes of the iteration's
\* random draws.  Math.random() is j / RandomSteps for a j in Random.
DEFAULT_SETTINGS ==
    [gameMode |-> "Dual", nLevel |-> 2, stimulusDuration |-> 1500,
     interStimulusInterval |-> 2500, sessionDuration |-> 120]

Random == 0..(RandomSteps - 1)

\* 0.25, as the fraction 1 / 4
targetMatchProbability == <<1, 4>>

\* Math.random() < targetMatchProbability
BelowTarget(j) ==
    j * targetMatchProbability[2] < targetMatchProbability[1] * RandomSteps

\* Math.floor(Math.random() * count)
RandomIndex(j, count) == (j * count) \div RandomSteps

\* Variant: a position is drawn in every game mode.
getRandomVisualAlways(gameMode, j) == Some(RandomIndex(j, GRID_CELL_COUNT))

getRandomVisual(gameMode, j) ==
    IF gameMode = "Audio" THEN NULL ELSE Some(RandomIndex(j, GRID_CELL_COUNT))

getRandomAudio(gameMode, j) ==
    IF gameMode = "Visual" THEN NULL
    ELSE Some(AUDIO_LETTERS[RandomIndex(j, Len(AUDIO_LETTERS)) + 1])

\* Math.ceil(a / b) and Math.floor(a / b) of integers, b > 0
Ceil(a, b) == -((-a) \div b)
Floor(a, b) == a \div b
Max(a, b) == IF a >= b THEN a ELSE b

trialDuration(settings) ==
    settings.stimulusDuration + settings.interStimulusInterval

\* Variant: the number of trials is rounded up.
numTrialsRoundedUp(settings) ==
    Ceil(settings.sessionDuration * 1000, trialDuration(settings))

numTrials(settings) ==
    Floor(settings.sessionDuration * 1000, trialDuration(settings))

\* Math.ceil(sessionDuration / 30 * 3), 0 for a disabled channel
minMatches(settings, disabledIn) ==
    IF settings.gameMode # disabledIn
    THEN Ceil(settings.sessionDuration * 3, 30) ELSE 0

\* The call up to its loop (lines 11-43): the early return when the trial
\* duration is not positive, else the locals at loop entry.
generateSequenceEntry(settings) ==
    LET returns == trialDuration(settings) <= 0 IN
    [status |-> IF returns THEN "returned" ELSE "loop",
     settings |-> settings,
     numTrials |-> IF returns THEN 0 ELSE numTrials(settings),
     minVisualMatches |-> IF returns THEN 0 ELSE minMatches(settings, "Audio"),
     minAudioMatches |-> IF returns THEN 0 ELSE minMatches(settings, "Visual"),
     i |-> 0,
     sequence |-> <<>>,
     visualMatchesCreated |-> 0,
     audioMatchesCreated |-> 0,
     visualMatches |-> 0,
     audioMatches |-> 0]

\* Variant: a match is forced only when fewer trials remain than matches are
\* still needed.
ForceMatchTooLate(i, nLevel, remainingTrials, minRemaining, enabled) ==
    i >= nLevel /\ remainingTrials < minRemaining /\ minRemaining > 0 /\ enabled

\* Variant: a match is forced when the remaining trials are at most the
\* matches still needed.
ForceMatchWithoutMargin(i, nLevel, remainingTrials, minRemaining, enabled) ==
    i >= nLevel /\ remainingTrials <= minRemaining /\ minRemaining > 0 /\ enabled

\* lines 58 and 62: force a match when the trials run out
ForceMatch(i, nLevel, remainingTrials, minRemaining, enabled) ==
    i >= nLevel /\ remainingTrials <= minRemaining * 2 /\ minRemaining > 0 /\ enabled

\* Variant: the first draw of a non-match is kept.
RedrawNever(i, nLevel, enabled, value, sequence, channel) == FALSE

\* lines 74 and 85: the condition of the do-while, the draw is repeated
Redraw(i, nLevel, enabled, value, sequence, channel) ==
    /\ i >= nLevel
    /\ enabled
    /\ value = Value(sequence[Len(sequence) - nLevel + 1], channel)
    /\ value # NULL

\* One iteration of the loop (lines 47-88) for the locals g.  coinVisual and
\* coinAudio are the draws compared with targetMatchProbability, drawVisual
\* and drawAudio the last draws of the two do-while loops.  The code reads
\* sequence[i - nLevel]; sequence.length is i, so that is the element nLevel
\* from the end.
LoopBody(g, coinVisual, drawVisual, coinAudio, drawAudio) ==
    LET gameMode == g.settings.gameMode
        nLevel == g.settings.nLevel
        i == g.i
        nBack == g.sequence[Len(g.sequence) - nLevel + 1]
        remainingTrials == g.numTrials - i
        minRemainingVisual == Max(0, g.minVisualMatches - g.visualMatchesCreated)
        minRemainingAudio == Max(0, g.minAudioMatches - g.audioMatchesCreated)
        forceVisualMatch ==
            ForceMatch(i, nLevel, remainingTrials, minRemainingVisual, gameMode # "Audio")
        forceAudioMatch ==
            ForceMatch(i, nLevel, remainingTrials, minRemainingAudio, gameMode # "Visual")
        visualMatch == i >= nLevel /\ gameMode # "Audio"
            /\ (forceVisualMatch \/ BelowTarget(coinVisual))
        audioMatch == i >= nLevel /\ gameMode # "Visual"
            /\ (forceAudioMatch \/ BelowTarget(coinAudio))
        visualPosition == IF visualMatch THEN nBack.visualPosition
                          ELSE getRandomVisual(gameMode, drawVisual)
        audioLetter == IF audioMatch THEN nBack.audioLetter
                       ELSE getRandomAudio(gameMode, drawAudio)
    IN  [exits |->
            /\ visualMatch \/ ~Redraw(i, nLevel, gameMode # "Audio",
                                      visualPosition, g.sequence, "visual")
            /\ audioMatch \/ ~Redraw(i, nLevel, gameMode # "Visual",
                                     audioLetter, g.sequence, "audio"),
         visualMatch |-> visualMatch,
         audioMatch |-> audioMatch,
         stimulus |-> [visualPosition |-> visualPosition, audioLetter |-> audioLetter]]

\* the last n elements of a sequence
LastOf(q, n) == IF Len(q) <= n THEN q ELSE SubSeq(q, Len(q) - n + 1, Len(q))

\* the pushed stimulus repeats, on the channel, the value nLevel before it
PushedRepeats(g, stimulus, channel) ==
    /\ g.i >= g.settings.nLevel
    /\ Value(stimulus, channel) # NULL
    /\ Value(stimulus, channel)
          = Value(g.sequence[Len(g.sequence) - g.settings.nLevel + 1], channel)

\* sequence.push (line 88) and the counters (lines 69, 80).  Of the sequence
\* the last `keep` elements are kept; visualMatches and audioMatches count
\* the pushed elements that repeat the value nLevel before them.
Push(g, b, keep) ==
    [g EXCEPT
        !.i = g.i + 1,
        !.sequence = LastOf(Append(g.sequence, b.stimulus), keep),
        !.visualMatchesCreated = IF b.visualMatch THEN @ + 1 ELSE @,
        !.audioMatchesCreated = IF b.audioMatch THEN @ + 1 ELSE @,
        !.visualMatches = IF PushedRepeats(g, b.stimulus, "visual") THEN @ + 1 ELSE @,
        !.audioMatches = IF PushedRepeats(g, b.stimulus, "audio") THEN @ + 1 ELSE @]

\* for (let i = 0; i < numTrials; i++) { ... }, the random draws of the
\* iteration taken from `draws`
generateIteration(keep, draws) ==
    /\ gen.status = "loop"
    /\ gen.i < gen.numTrials
    /\ \E coinVisual, drawVisual, coinAudio, drawAudio \in draws :
            LET b == LoopBody(gen, coinVisual, drawVisual, coinAudio, drawAudio) IN
            /\ b.exits
            /\ gen' = Push(gen, b, keep)
    /\ UNCHANGED <<state, now, threw, props, generated, driver>>

\* return sequence
generateReturn ==
    /\ gen.status = "loop"
    /\ ~(gen.i < gen.numTrials)
    /\ gen' = [gen EXCEPT !.status = "returned"]
    /\ UNCHANGED <<state, now, threw, props, generated, driver>>

\* The settings generateSequence is called with: every game mode and
\* N-level, trial durations that are negative, zero and positive, session
\* durations from below zero up to MaxSeconds.
GenSettings ==
    { [gameMode |-> mode, nLevel |-> n, stimulusDuration |-> sd,
       interStimulusInterval |-> isi, sessionDuration |-> sec] :
        mode \in GameMode, n \in MIN_N_LEVEL..MaxN,
        sd \in {500, 1000}, isi \in {-1000, 500}, sec \in -1..MaxSeconds }

GenInitOn(settings) ==
    /\ state = initialState
    /\ now = 0
    /\ threw = FALSE
    /\ driver = mounted
    /\ generated = <<>>
    /\ props = settings
    /\ gen = generateSequenceEntry(settings)

GenInit == \E settings \in GenSettings : GenInitOn(settings)

GenNext ==
    \/ generateIteration(gen.numTrials, Random)
    \/ generateReturn

\* the generator with its whole sequence
GenSpec == GenInit /\ [][GenNext]_vars

\* The generator on the default settings in each game mode (120 s, 30
\* trials of 4 s, N = 2).  Of the sequence built so far the loop reads the
\* element nLevel from the end only: this specification keeps the last
\* nLevel elements.  The draws are the smallest and the largest value of
\* Math.random(): the first is below targetMatchProbability, the second is
\* not, and they give two values per channel, so every pattern of matches
\* and non-matches is drawn.
LongGenInit ==
    \E mode \in GameMode : GenInitOn([DEFAULT_SETTINGS EXCEPT !.gameMode = mode])

LongGenNext ==
    \/ generateIteration(gen.settings.nLevel, {0, RandomSteps - 1})
    \/ generateReturn

LongGenSpec == LongGenInit /\ [][LongGenNext]_vars

(* ------------------------------------------------ claims on the generator *)
GenReturned == gen.status = "returned"
GenEnabled(channel) ==
    gen.settings.gameMode # (IF channel = "visual" THEN "Audio" ELSE "Visual")
\* the matches the generator counted as created on a channel
GenCreated(channel) ==
    IF channel = "visual" THEN gen.visualMatchesCreated ELSE gen.audioMatchesCreated
\* the pushed elements that repeated the value nLevel before them
GenMatches(channel) ==
    IF channel = "visual" THEN gen.visualMatches ELSE gen.audioMatches
\* the true N-back matches of a sequence, re-derived from its values
MatchesIn(sequence, nLevel, channel) ==
    {i \in nLevel..(Len(sequence) - 1) :
        /\ Value(At(sequence, i), channel) # NULL
        /\ Value(At(sequence, i), channel) = Value(At(sequence, i - nLevel), channel)}

C26_ChannelExclusivity ==
    /\ GRID_CELL_COUNT = 9
    /\ Len(AUDIO_LETTERS) = 8
    /\ \A k \in DOMAIN gen.sequence :
        LET stimulus == gen.sequence[k]
            gameMode == gen.settings.gameMode
            aPosition == stimulus.visualPosition
                            \in {Some(position) : position \in 0..(GRID_CELL_COUNT - 1)}
            aLetter == stimulus.audioLetter
                            \in {Some(AUDIO_LETTERS[j]) : j \in DOMAIN AUDIO_LETTERS}
        IN  /\ gameMode = "Visual" => stimulus.audioLetter = NULL /\ aPosition
            /\ gameMode = "Audio" => stimulus.visualPosition = NULL /\ aLetter
            /\ gameMode = "Dual" => aPosition /\ aLetter

\* A returned Dual sequence with a trial that repeats both values of the
\* trial N before it and a later trial that repeats neither.
C26_Witness ==
    /\ GenReturned
    /\ gen.settings.gameMode = "Dual"
    /\ \E i, j \in gen.settings.nLevel..(Len(gen.sequence) - 1) :
            /\ i \in MatchesIn(gen.sequence, gen.settings.nLevel, "visual")
            /\ i \in MatchesIn(gen.sequence, gen.settings.nLevel, "audio")
            /\ j \notin MatchesIn(gen.sequence, gen.settings.nLevel, "visual")
            /\ j \notin MatchesIn(gen.sequence, gen.settings.nLevel, "audio")

\* C27: on the default settings (120 s, 1500 ms + 2500 ms, N = 2) in any
\* game mode, every sequence the generator returns has 30 elements and, on
\* each enabled channel, at least 12 elements that repeat the value two
\* before them, whatever the random draws.
C27_MinimumMatches ==
    GenReturned =>
        /\ gen.i = 30
        /\ \A channel \in ResponseType :
                GenEnabled(channel) => GenMatches(channel) >= 12

\* A returned Dual sequence with exactly 12 visual matches, all of them
\* forced or drawn, and more audio matches.
C27_Witness ==
    /\ GenReturned
    /\ gen.settings = DEFAULT_SETTINGS
    /\ gen.i = 30
    /\ gen.visualMatches = 12
    /\ gen.audioMatches > 12

\* C28: in every iteration with i >= N and on every enabled channel, when
\* the generator does not make the trial a match (neither forced nor by the
\* probability draw), the value it pushes differs from the value N before;
\* so the true matches re-derived from the sequence are exactly the matches
\* the generator counted as created.
C28_NoSelfCollision ==
    /\ \A channel \in ResponseType :
            GenEnabled(channel) =>
                /\ Cardinality(MatchesIn(gen.sequence, gen.settings.nLevel, channel))
                        = GenCreated(channel)
                /\ GenMatches(channel) = GenCreated(channel)
    /\ (gen.status = "loop" /\ gen.i < gen.numTrials /\ gen.i >= gen.settings.nLevel) =>
            \A coinVisual, drawVisual, coinAudio, drawAudio \in Random :
                LET b == LoopBody(gen, coinVisual, drawVisual, coinAudio, drawAudio)
                    nBack == At(gen.sequence, gen.i - gen.settings.nLevel)
                IN  b.exits =>
                        /\ (GenEnabled("visual") /\ ~b.visualMatch) =>
                                b.stimulus.visualPosition # nBack.visualPosition
                        /\ (GenEnabled("audio") /\ ~b.audioMatch) =>
                                b.stimulus.audioLetter # nBack.audioLetter

\* A returned Visual sequence of three trials, N = 1, with one match created
\* (trial 1, forced) and a trial that is not a match and differs from the
\* trial before it.
C28_Witness ==
    /\ GenReturned
    /\ gen.settings.gameMode = "Visual"
    /\ gen.settings.nLevel = 1
    /\ Len(gen.sequence) = 3
    /\ gen.visualMatchesCreated = 1
    /\ MatchesIn(gen.sequence, 1, "visual") = {1}
    /\ At(gen.sequence, 2).visualPosition # At(gen.sequence, 1).visualPosition

(* -------------------------------------------------- claims on the driver *)
\* the effects React is about to run call generateSequence and dispatch
\* START_GAME and RUN_GAME
StartPending ==
    /\ EffectsPending
    /\ RunEffects(driver).actions # <<>>
    /\ Head(RunEffects(driver).actions).type = "START_GAME"

\* C30 as stated: the driver generates the sequence and starts the engine
\* (start then run) once per activation, that is only in the effects of a
\* render in which isActive has gone from false to true; a change of the
\* engine status alone while isActive stays true does not generate and start
\* again.
C30_StartOncePerActivation ==
    StartPending => (~driver.effects.isActive /\ driver.commit.isActive)

(* ------------------------------------------------ further engine claims *)
\* the fields of the reducer's state
StateFields == DOMAIN initialState

\* C31: in every state clearVisualStimulus sets the active visual stimulus
\* to none and updateElapsedTime sets the elapsed time to its value, and each
\* leaves every other field of the state (status, trial index, score,
\* responses, active audio stimulus, feedback, feedback expiry, Results,
\* settings, stimulus sequence) unchanged.
C31_FrameOfClearAndElapsed ==
    /\ Cardinality(StateFields) = 12
    /\ LET after == After(ClearVisualStimulusAction) IN
       /\ after.activeVisualStimulus = NULL
       /\ \A f \in StateFields \ {"activeVisualStimulus"} : after[f] = state[f]
    /\ \A payload \in 0..MaxElapsed :
            LET after == After(UpdateElapsedTimeAction(payload)) IN
            /\ after.elapsedTime = payload
            /\ \A f \in StateFields \ {"elapsedTime"} : after[f] = state[f]

\* A Dual session showing both stimuli and feedback, with a score and
\* elapsed time: clearing the visual stimulus changes the state.
C31_Witness ==
    /\ Started
    /\ state.activeVisualStimulus # NULL
    /\ state.activeAudioStimulus # NULL
    /\ state.feedback # NoFeedback
    /\ state.score # 0
    /\ state.elapsedTime = 1
    /\ After(ClearVisualStimulusAction) # state
    /\ After(UpdateElapsedTimeAction(0)) # state

(* --------------------------------- the generator on the configurable range *)
MAX_STIMULUS_DURATION == 3000
MIN_ISI == 500
MAX_ISI == 5000
MIN_SESSION_DURATION == 30

\* Settings within the range the settings form clamps to: the shortest
\* session with the longest stimulus and the shortest and the longest
\* interval, that is trial durations of 3500 and 8000 ms and 8 and 3 trials.
ConfigSettings ==
    { [gameMode |-> mode, nLevel |-> n, stimulusDuration |-> MAX_STIMULUS_DURATION,
       interStimulusInterval |-> isi, sessionDuration |-> MIN_SESSION_DURATION] :
        mode \in GameMode, n \in MIN_N_LEVEL..MaxN, isi \in {MIN_ISI, MAX_ISI} }

ConfigGenInit == \E settings \in ConfigSettings : GenInitOn(settings)

\* As in LongGenSpec the last nLevel elements of the sequence are kept and
\* the draws are the smallest and the largest value of Math.random().
ConfigGenNext ==
    \/ generateIteration(gen.settings.nLevel, {0, RandomSteps - 1})
    \/ generateReturn

ConfigGenSpec == ConfigGenInit /\ [][ConfigGenNext]_vars

\* C32 as stated: for settings within the configurable ranges with an
\* N-level smaller than the number of trials, every returned sequence has,
\* on each enabled channel, at least ceil(sessionDuration / 30 * 3) elements
\* that repeat the value N before them.
C32_MinimumExposure ==
    (GenReturned /\ gen.settings.nLevel < gen.i) =>
        \A channel \in ResponseType :
            GenEnabled(channel) =>
                GenMatches(channel) >= Ceil(gen.settings.sessionDuration * 3, 30)

\* the matches still needed on a channel before the trial under generation
GenNeeded(channel) ==
    Max(0, Ceil(gen.settings.sessionDuration * 3, 30) - GenCreated(channel))

\* C33: in the iteration for trial i, on every enabled channel and whatever
\* the random draws: when i >= N, the remaining trials numTrials - i are at
\* most twice the matches still needed and a match is still needed, the
\* trial is made a match, its value is the value N before it and the match
\* is counted; when i < N the trial is not made a match and nothing is
\* counted.
C33_ForcedMatch ==
    (gen.status = "loop" /\ gen.i < gen.numTrials) =>
        \A coinVisual, drawVisual, coinAudio, drawAudio \in Random :
            LET b == LoopBody(gen, coinVisual, drawVisual, coinAudio, drawAudio)
                pushed == Push(gen, b, gen.settings.nLevel)
                made(channel) == IF channel = "visual" THEN b.visualMatch ELSE b.audioMatch
                counted(channel) == IF channel = "visual" THEN pushed.visualMatchesCreated
                                    ELSE pushed.audioMatchesCreated
            IN  b.exits =>
                \A channel \in ResponseType :
                    GenEnabled(channel) =>
                        /\ (/\ gen.i >= gen.settings.nLevel
                            /\ gen.numTrials - gen.i <= 2 * GenNeeded(channel)
                            /\ GenNeeded(channel) > 0) =>
                                /\ made(channel)
                                /\ Value(b.stimulus, channel) =
                                      Value(gen.sequence[Len(gen.sequence)
                                                - gen.settings.nLevel + 1], channel)
                                /\ counted(channel) = GenCreated(channel) + 1
                        /\ gen.i < gen.settings.nLevel =>
                                /\ ~made(channel)
                                /\ counted(channel) = GenCreated(channel)

\* The generator before trial 2 of 8 with N = 1: no visual match made yet,
\* 6 trials remain and 3 matches are needed, so the trial is forced.
C33_Witness ==
    /\ gen.status = "loop"
    /\ gen.settings.gameMode = "Visual"
    /\ gen.settings.nLevel = 1
    /\ gen.numTrials = 8
    /\ gen.i = 2
    /\ gen.visualMatchesCreated = 0
    /\ \A coin \in Random : LoopBody(gen, coin, 0, 0, 0).visualMatch
    /\ \E coin \in Random : ~BelowTarget(coin)

(* ------------------------------------------------- a session left running *)
\* A session with a non-empty sequence, started and run (Game.tsx isActive
\* effect: START_GAME then RUN_GAME), and then neither started again,
\* stopped, paused nor resumed.  gameTick reschedules itself after every
\* NEXT_TRIAL, so the advance is taken again as long as it changes the state.
LiveInit ==
    /\ now = 0
    /\ threw = FALSE
    /\ driver = mounted
    /\ gen = NULL
    /\ \E session \in Sessions :
            /\ Len(session.sequence) > 0
            /\ props = session.settings
            /\ generated = session.sequence
            /\ state = gameReducer(gameReducer(initialState,
                            StartGameAction(session.settings, session.sequence)),
                            RunGameAction)

LiveNext ==
    \/ advanceTrial
    \/ registerResponse
    \/ clearFeedback
    \/ updateElapsedTime
    \/ clearVisualStimulus
    \/ endSession
    \/ Tick

LiveSpec == LiveInit /\ [][LiveNext]_vars /\ WF_vars(advanceTrial)

\* C34: a session started with a non-empty sequence and run, never stopped
\* or paused, with the trial tick firing, eventually has the status
\* finished; every advance before that moves the trial index one step up
\* from -1 and the advance at the last index finishes the session, so the
\* status is finished after at most length + 1 advances.
C34_EventuallyFinished ==
    /\ <>(state.status = "finished")
    /\ [](state.status # "finished" =>
            state.currentTrial \in -1..(Len(state.stimulusSequence) - 1))
    /\ [][(state.status # "finished" /\ advanceTrial) =>
            IF state.currentTrial = Len(state.stimulusSequence) - 1
            THEN state'.status = "finished"
            ELSE /\ state'.status = state.status
                 /\ state'.currentTrial = state.currentTrial + 1]_vars

\* The longest session finished by the advance past its last trial, not by
\* endSession: no results are attached.
C34_Witness ==
    /\ state.status = "finished"
    /\ state.results = NULL
    /\ Len(state.stimulusSequence) = MaxLen
    /\ state.currentTrial = MaxLen - 1

(* ------------------------------------------------------- totality of events *)
\* C35: every engine event is total over all states: no event raises an
\* error, in particular registerResponse dispatched in the initial state,
\* where the settings are absent, does not raise.
C35_EventsAreTotal == ~threw

(* ------------------------------------------------------- the running score *)
\* trial i is a true N-back match on the channel
TrueMatch(i, channel) ==
    /\ i >= NLevel
    /\ Value(At(state.stimulusSequence, i), channel) # NULL
    /\ Repeats(i, NLevel, channel)

\* C36: in every state of a started session the score is the number of
\* (trial, channel) pairs pressed on a true N-back match, minus the number
\* pressed on a non-match, minus the number of pairs (i, enabled channel)
\* with N <= i < current trial index that are true matches and not pressed;
\* a pair changes the score at most once: a press on a pair already pressed
\* leaves the score as it is.
C36_ScoreFormula ==
    Started =>
        LET pairs == (0..(Len(state.stimulusSequence) - 1)) \X ResponseType
            pressed == {p \in pairs : PressedAt(p[1], p[2])}
            hits == {p \in pressed : TrueMatch(p[1], p[2])}
            missed == {p \in pairs \ pressed :
                        /\ Enabled(p[2])
                        /\ p[1] < state.currentTrial
                        /\ TrueMatch(p[1], p[2])}
        IN  /\ state.score = Cardinality(hits) - Cardinality(pressed \ hits)
                                - Cardinality(missed)
            /\ \A responseType \in ResponseType :
                (state.currentTrial >= 0 /\ PressedAt(state.currentTrial, responseType)) =>
                    After(RegisterResponseAction(responseType, now, props)).score
                        = state.score

\* A Visual session in which a hit, a false alarm and a resolved miss have
\* each changed the score.
C36_Witness ==
    /\ Started
    /\ Val(state.settings).gameMode = "Visual"
    /\ state.score = -1
    /\ \E i, j, k \in 0..(Len(state.stimulusSequence) - 1) :
        /\ PressedAt(i, "visual") /\ TrueMatch(i, "visual")
        /\ PressedAt(j, "visual") /\ ~TrueMatch(j, "visual")
        /\ ~PressedAt(k, "visual") /\ TrueMatch(k, "visual") /\ k < state.currentTrial

\* C37: when a session has run until its sequence is exhausted and its
\* Results are computed, the score equals the sum over the enabled channels
\* of hits - misses - falseAlarms of the Results; a missed match on the
\* last trial is in the score like any other miss.
C37_ScoreAgreesWithResults ==
    (/\ Started
     /\ state.status = "finished"
     /\ state.currentTrial = Len(state.stimulusSequence) - 1
     /\ state.results # NULL) =>
        LET results == Scored IN
        state.results = Some(results) =>
            state.score = Total(results, "hits") - Total(results, "misses")
                            - Total(results, "falseAlarms")

(* ------------------------------------------------ the shape of a session *)
\* C38: in every state of a started session the trial index is in
\* -1..length - 1, the response table has one slot per sequence element, a
\* response is pressed only at an index N <= i <= current trial index and
\* only on a channel the game mode enables, and a press on a disabled
\* channel changes neither the responses, the score nor the feedback.
C38_SessionShape ==
    Started =>
        LET length == Len(state.stimulusSequence) IN
        /\ state.currentTrial \in -1..(length - 1)
        /\ Len(state.userResponses) = length
        /\ \A i \in 0..(length - 1) :
            /\ DOMAIN At(state.userResponses, i) = ResponseType
            /\ \A channel \in ResponseType :
                PressedAt(i, channel) =>
                    /\ NLevel <= i
                    /\ i <= state.currentTrial
                    /\ Enabled(channel)
        /\ \A channel \in ResponseType :
            ~Enabled(channel) =>
                LET after == After(RegisterResponseAction(channel, now, props))
                IN  /\ after.userResponses = state.userResponses
                    /\ after.score = state.score
                    /\ after.feedback = state.feedback
                    /\ after.showFeedbackUntil = state.showFeedbackUntil

\* An Audio session on its last trial, inside the N-back window, with an
\* audio press recorded and its feedback showing: a visual press would be
\* scored there if the channel were enabled.
C38_Witness ==
    /\ Started
    /\ Val(state.settings).gameMode = "Audio"
    /\ state.currentTrial = Len(state.stimulusSequence) - 1
    /\ state.currentTrial >= NLevel
    /\ PressedAt(state.currentTrial, "audio")
    /\ At(state.userResponses, state.currentTrial).visual = NULL
    /\ state.feedback.audio # NULL
    /\ After(RegisterResponseAction("visual", now, props)) = state

(* --------------------------------------------------- the range of the rates *)
\* the rate, a fraction with a positive denominator, is between 0 and 100
IsPercentage(rate) ==
    /\ rate[2] > 0
    /\ 0 <= rate[1]
    /\ rate[1] <= 100 * rate[2]

\* C39: for every sequence, N-level and set of responses, the rate of each
\* enabled channel and the overall success rate of the computed Results are
\* percentages between 0 and 100 inclusive.
C39_RatesArePercentages ==
    Started =>
        LET results == Scored IN
        /\ IsPercentage(results.overallSuccessRate)
        /\ \A channel \in ResponseType :
            Enabled(channel) => IsPercentage(Val(results[channel]).rate)

(* ------------------------------------------------- the elapsed-time timer *)
\* C40: the elapsed-time tick accumulates: the tick pending while the
\* session is running dispatches the engine's latest elapsedTime plus the
\* second since the tick before, so that after k ticks elapsedTime is the
\* sum of the k deltas.
C40_ElapsedTimeAccumulates ==
    (/\ driver.elapsed # NULL
     /\ Val(driver.elapsed).status = "running"
     /\ state.status = "running") =>
        LET newElapsedTime == Val(driver.elapsed).elapsedTime + 1
        IN  newElapsedTime = state.elapsedTime + 1

====
